---------------------------- MODULE Spec2Model ----------------------------
(***************************************************************************)
(* Model of the MermaidDiagram component (src/unnamed/part_001): the text  *)
(* repair functions processDefinition, validateAndFixDiagram,              *)
(* createFallbackDiagram and ensurePerfectDiagram, and the tiered render   *)
(* pipeline renderDiagram; and of the bracket balancer                     *)
(* fixMismatchedBrackets of src/src/lib/gemini/gemini-service.ts.          *)
(*                                                                         *)
(* Texts are strings; a character is a string of length one.  Positions    *)
(* are 1-based.  Every regular expression of the source is an operator     *)
(* M(s, i) that gives the position just after the match that starts at i,  *)
(* or 0 when the expression does not match at i.                           *)
(***************************************************************************)
EXTENDS Integers, Sequences, FiniteSets, TLC

(***************************************************************************)
(* JavaScript values handed to the functions: a string, or undefined.      *)
(***************************************************************************)
Undefined == [undef |-> TRUE, str |-> ""]
Str(s) == [undef |-> FALSE, str |-> s]
\* !v for a value that is a string or undefined
Falsy(v) == v.undef \/ v.str = ""

(***************************************************************************)
(* Characters and character classes of the regular expressions.            *)
(***************************************************************************)
Ch(s, i) == IF i >= 1 /\ i <= Len(s) THEN SubSeq(s, i, i) ELSE ""
From(s, i) == SubSeq(s, i, Len(s))

UpperChars == {"A","B","C","D","E","F","G","H","I","J","K","L","M",
               "N","O","P","Q","R","S","T","U","V","W","X","Y","Z"}
LowerChars == {"a","b","c","d","e","f","g","h","i","j","k","l","m",
               "n","o","p","q","r","s","t","u","v","w","x","y","z"}
DigitChars == {"0","1","2","3","4","5","6","7","8","9"}
\* \w
WordChars == UpperChars \cup LowerChars \cup DigitChars \cup {"_"}
\* [A-Za-z0-9_-]
IdChars == WordChars \cup {"-"}
\* \s and the white space of trim(), the ASCII part: the space, the tab, the
\* line feed, the carriage return, the form feed and the vertical tab
\* (U+000B, written as the character itself)
WsChars == {" ", "\t", "\n", "\r", "\f", ""}
\* the line terminators: what "." does not match and where "$" matches (flag m)
LineTerminators == {"\n", "\r"}

IsWs(s, i) == Ch(s, i) \in WsChars
IsId(s, i) == Ch(s, i) \in IdChars
IsWord(s, i) == Ch(s, i) \in WordChars
\* \b at position i (between the characters i-1 and i)
WordBoundary(s, i) == IsWord(s, i - 1) # IsWord(s, i)
\* $ with flag m at position i
AtEol(s, i) == i > Len(s) \/ Ch(s, i) \in LineTerminators
\* s has the literal lit at position i
HasAt(s, i, lit) ==
  /\ i >= 1
  /\ i + Len(lit) - 1 <= Len(s)
  /\ SubSeq(s, i, i + Len(lit) - 1) = lit
startsWith(s, lit) == HasAt(s, 1, lit)

\* \s* from i: the position of the first character that is not white space
RECURSIVE SkipWs(_, _)
SkipWs(s, i) == IF i <= Len(s) /\ IsWs(s, i) THEN SkipWs(s, i + 1) ELSE i
\* [A-Za-z0-9_-]* from i: the position just after the longest run
RECURSIVE SkipId(_, _)
SkipId(s, i) == IF i <= Len(s) /\ IsId(s, i) THEN SkipId(s, i + 1) ELSE i
\* the last position of white space before i, going down to lo
RECURSIVE SkipWsBack(_, _)
SkipWsBack(s, i) == IF i >= 1 /\ IsWs(s, i) THEN SkipWsBack(s, i - 1) ELSE i
\* String.prototype.trim
trim(s) == SubSeq(s, SkipWs(s, 1), SkipWsBack(s, Len(s)))

\* the first of two positions that is one (0 is none)
OrElse(first, second) == IF first > 0 THEN first ELSE second
\* String.prototype.indexOf(lit, from) as a 1-based position, 0 when absent:
\* the first position in lo..hi that holds lit
RECURSIVE IndexOfIn(_, _, _, _)
IndexOfIn(s, lit, lo, hi) ==
  IF lo > hi THEN 0
  ELSE IF lo = hi THEN (IF HasAt(s, lo, lit) THEN lo ELSE 0)
  ELSE OrElse(IndexOfIn(s, lit, lo, (lo + hi) \div 2),
              IndexOfIn(s, lit, (lo + hi) \div 2 + 1, hi))
IndexOf(s, lit, i) == IndexOfIn(s, lit, i, Len(s) - Len(lit) + 1)
includes(s, lit) == IndexOf(s, lit, 1) > 0

\* String.prototype.split("\n")
RECURSIVE SplitFrom(_, _)
SplitFrom(s, i) ==
  LET j == IndexOf(s, "\n", i)
  IN IF j = 0 THEN <<From(s, i)>>
     ELSE <<SubSeq(s, i, j - 1)>> \o SplitFrom(s, j + 1)
split(s) == SplitFrom(s, 1)
\* Array.prototype.join("\n")
RECURSIVE join(_)
join(ls) ==
  IF Len(ls) = 0 THEN ""
  ELSE IF Len(ls) = 1 THEN ls[1]
  ELSE ls[1] \o "\n" \o join(Tail(ls))

\* a statement "text = Step(text)": the text is evaluated, then Step applied
Pass(text, Step(_)) == CHOOSE result \in {Step(t) : t \in {text}} : TRUE

(***************************************************************************)
(* String.prototype.replace with a global regular expression: the matches  *)
(* are taken left to right, each search resuming just after the last match.*)
(***************************************************************************)
\* the first position in lo..hi where M matches, or 0; the positions are tried
\* left to right
RECURSIVE NextMatchIn(_, _, _, _)
NextMatchIn(M(_, _), s, lo, hi) ==
  IF lo > hi THEN 0
  ELSE IF lo = hi THEN (IF M(s, lo) > 0 THEN lo ELSE 0)
  ELSE OrElse(NextMatchIn(M, s, lo, (lo + hi) \div 2),
              NextMatchIn(M, s, (lo + hi) \div 2 + 1, hi))
NextMatch(M(_, _), s, i) == NextMatchIn(M, s, i, Len(s))

\* i is where the search started, j the start of the match (0: none), e its
\* end; Rest(e) is the replacement of what follows the match
ReplaceMatch(Rest(_), R(_, _, _), s, i, j, e) ==
  SubSeq(s, i, j - 1) \o R(s, j, e) \o Rest(e)
ReplaceFound(Rest(_), M(_, _), R(_, _, _), s, i, j) ==
  IF j = 0 THEN From(s, i) ELSE ReplaceMatch(Rest, R, s, i, j, M(s, j))
RECURSIVE ReplaceFrom(_, _, _, _)
ReplaceFrom(M(_, _), R(_, _, _), s, i) ==
  ReplaceFound(LAMBDA e : ReplaceFrom(M, R, s, e), M, R, s, i, NextMatch(M, s, i))
ReplaceAll(M(_, _), R(_, _, _), s) == ReplaceFrom(M, R, s, 1)

(***************************************************************************)
(* processDefinition: the Normalizer.                                      *)
(***************************************************************************)
\* /\r\n/g
CrLf(s, i) == IF HasAt(s, i, "\r\n") THEN i + 2 ELSE 0

\* (?:graph|flowchart) at i: the position after the keyword, or 0
GraphKeyword(s, i) ==
  IF HasAt(s, i, "graph") THEN i + 5
  ELSE IF HasAt(s, i, "flowchart") THEN i + 9 ELSE 0
\* (?:graph|flowchart)\s+(?:TD|LR|RL|BT) at i
DupDirections == {"TD", "LR", "RL", "BT"}
Declaration(s, i) ==
  LET a == GraphKeyword(s, i)
      b == SkipWs(s, a)
  IN IF a > 0 /\ b > a /\ b + 1 <= Len(s) /\ SubSeq(s, b, b + 1) \in DupDirections
     THEN b + 2 ELSE 0
\* /(?:graph|flowchart)\s+(?:TD|LR|RL|BT)\s*\n\s*(?:graph|flowchart)\s+(?:TD|LR|RL|BT)/g
\* \s*\n\s* is a run of white space with a line feed in it; the keyword that
\* follows is not white space, so the run is the longest one.
DuplicateDeclaration(s, i) ==
  LET c == Declaration(s, i)
      d == SkipWs(s, c)
      nl == IndexOf(s, "\n", c)
  IN IF c > 0 /\ nl > 0 /\ nl < d THEN Declaration(s, d) ELSE 0
\* match.split("\n")[0]
FirstDeclaration(s, i, e) == split(SubSeq(s, i, e - 1))[1]

\* /--[^>]>/g and /==[^>]>/g
InvalidArrow(s, i, two) ==
  IF HasAt(s, i, two) /\ i + 3 <= Len(s) /\ Ch(s, i + 2) # ">" /\ Ch(s, i + 3) = ">"
  THEN i + 4 ELSE 0

\* the largest position in lo..hi-1 that holds a line terminator, or 0
RECURSIVE LastEol(_, _, _)
LastEol(s, lo, hi) ==
  IF hi - 1 < lo THEN 0
  ELSE IF Ch(s, hi - 1) \in LineTerminators THEN hi - 1 ELSE LastEol(s, lo, hi - 1)
\* \s*(?:;|$) with flag m from position a: \s* is greedy and gives back one
\* character at a time until ";" or an end of line follows
WsThenSemiOrEol(s, a) ==
  LET d == SkipWs(s, a)
  IN IF d > Len(s) THEN d
     ELSE IF Ch(s, d) = ";" THEN d + 1
     ELSE LastEol(s, a, d)
\* \s*$ with flag m from position a
WsThenEol(s, a) ==
  LET d == SkipWs(s, a)
  IN IF d > Len(s) THEN d ELSE LastEol(s, a, d)
\* -.-> (the dot is not escaped: any character but a line terminator)
DotArrow(s, i) ==
  /\ i + 3 <= Len(s)
  /\ Ch(s, i) = "-"
  /\ Ch(s, i + 1) \notin LineTerminators
  /\ Ch(s, i + 2) = "-"
  /\ Ch(s, i + 3) = ">"
\* /-->\s*(?:;|$)/gm and the five that follow it
Dangling(s, i, lit) == IF HasAt(s, i, lit) THEN WsThenSemiOrEol(s, i + Len(lit)) ELSE 0
DanglingDotHead(s, i) == IF DotArrow(s, i) THEN WsThenSemiOrEol(s, i + 4) ELSE 0
\* the six replacements of incomplete arrows, in the order of the source
FixIncompleteArrows(s) ==
  Pass(Pass(Pass(Pass(Pass(
    ReplaceAll(LAMBDA t, i : Dangling(t, i, "-->"), LAMBDA t, i, e : "--> Unknown", s),
    LAMBDA p : ReplaceAll(LAMBDA t, i : Dangling(t, i, "==>"), LAMBDA t, i, e : "==> Unknown", p)),
    LAMBDA p : ReplaceAll(DanglingDotHead, LAMBDA t, i, e : "-.-> Unknown", p)),
    LAMBDA p : ReplaceAll(LAMBDA t, i : Dangling(t, i, "--"), LAMBDA t, i, e : "--> Unknown", p)),
    LAMBDA p : ReplaceAll(LAMBDA t, i : Dangling(t, i, "=="), LAMBDA t, i, e : "==> Unknown", p)),
    LAMBDA p : ReplaceAll(LAMBDA t, i : Dangling(t, i, "-."), LAMBDA t, i, e : "-.-> Unknown", p))

\* (?:\[[^\]]*\]|\([^)]*\)|\{[^}]*\}) at b: the position after the closing
\* bracket, or 0.  The label may hold any character but its closing bracket.
Closer(open) == IF open = "[" THEN "]" ELSE IF open = "(" THEN ")" ELSE "}"
AfterCloser(c) == IF c > 0 THEN c + 1 ELSE 0
Label(s, b) ==
  IF Ch(s, b) \in {"[", "(", "{"}
  THEN AfterCloser(IndexOf(s, Closer(Ch(s, b)), b + 1))
  ELSE 0
\* ([A-Za-z0-9_-]+(?:\[[^\]]*\]|...)) at i: the id is the longest run, since a
\* bracket has to follow it
LabelledNode(s, i) == IF IsId(s, i) THEN Label(s, SkipId(s, i)) ELSE 0
\* /(id label)\s+\1\s+--(?!>)/gm, and the same with == and -.
\* c is the position after the second copy of the group, d after \s+
RepeatedArrow(s, c, d, two) ==
  IF d > c /\ HasAt(s, d, two) /\ Ch(s, d + 2) # ">" THEN d + 2 ELSE 0
\* g is the position after the group grp, b after \s+
RepeatedSecond(s, grp, g, b, two) ==
  IF b > g /\ HasAt(s, b, grp)
  THEN RepeatedArrow(s, b + Len(grp), SkipWs(s, b + Len(grp)), two) ELSE 0
RepeatedAfter(s, i, g, two) ==
  IF g > 0 THEN RepeatedSecond(s, SubSeq(s, i, g - 1), g, SkipWs(s, g), two) ELSE 0
RepeatedDef(s, i, two) == RepeatedAfter(s, i, LabelledNode(s, i), two)
Group1(s, i) == SubSeq(s, i, LabelledNode(s, i) - 1)
FixRepeatedDefinitions(s) ==
  Pass(Pass(
    ReplaceAll(LAMBDA t, i : RepeatedDef(t, i, "--"),
               LAMBDA t, i, e : Group1(t, i) \o " --> Unknown", s),
    LAMBDA p : ReplaceAll(LAMBDA t, i : RepeatedDef(t, i, "=="),
                          LAMBDA t, i, e : Group1(t, i) \o " ==> Unknown", p)),
    LAMBDA p : ReplaceAll(LAMBDA t, i : RepeatedDef(t, i, "-."),
                          LAMBDA t, i, e : Group1(t, i) \o " -.-> Unknown", p))

\* a Set<string> in insertion order: add(x)
AddOnce(seq, x) == IF \E k \in 1..Len(seq) : seq[k] = x THEN seq ELSE Append(seq, x)
Range(seq) == {seq[k] : k \in 1..Len(seq)}

\* /\b([A-Za-z0-9_-]+)\s*(?:\[[^\]]*\]|\([^)]*\)|\{[^}]*\})/g at i.  The id is
\* the longest run: a shorter one is followed by an id character.
NodeDef(s, i) ==
  IF WordBoundary(s, i) /\ IsId(s, i) THEN Label(s, SkipWs(s, SkipId(s, i))) ELSE 0
\* the loop "while ((match = nodeDefRegex.exec(text)) !== null) add(match[1])"
RECURSIVE CollectDefs(_, _, _)
CollectDefAt(s, j, acc) ==
  IF j = 0 THEN acc
  ELSE CollectDefs(s, NodeDef(s, j), AddOnce(acc, SubSeq(s, j, SkipId(s, j) - 1)))
CollectDefs(s, i, acc) == CollectDefAt(s, NextMatch(NodeDef, s, i), acc)
\* nodeDefRegex.test(text)
HasNodeDef(s) == NextMatch(NodeDef, s, 1) > 0

\* (?:-->|==>|-.->|--o|--x|\|>|<\||~~~|---|===) at b: the position after the
\* first alternative that matches, or 0.  Two alternatives match at the same
\* place only on "--->" (-.-> and ---), where ">" follows the shorter one, so
\* that no id can follow it: taking the first is what backtracking gives.
ArrowEnd(s, b) ==
  IF HasAt(s, b, "-->") \/ HasAt(s, b, "==>") THEN b + 3
  ELSE IF DotArrow(s, b) THEN b + 4
  ELSE IF HasAt(s, b, "--o") \/ HasAt(s, b, "--x") THEN b + 3
  ELSE IF HasAt(s, b, "|>") \/ HasAt(s, b, "<|") THEN b + 2
  ELSE IF HasAt(s, b, "~~~") \/ HasAt(s, b, "---") \/ HasAt(s, b, "===") THEN b + 3
  ELSE 0
\* [A-Za-z0-9_-]+ at t: the position after the id, or 0
IdEnd(s, t) == IF IsId(s, t) THEN SkipId(s, t) ELSE 0
\* \s*([A-Za-z0-9_-]+) at e: the position after the id, or 0
Target(s, e) == IF e > 0 THEN IdEnd(s, SkipWs(s, e)) ELSE 0
\* \s*(?:-->|...|===) at a: the position after the arrow, or 0
ArrowAfter(s, a) == ArrowEnd(s, SkipWs(s, a))
\* an arrow that ends at e ends the match (with a target, when withTarget)
Completes(s, e, withTarget) == e > 0 /\ (~withTarget \/ Target(s, e) > 0)
\* the end of the source id of a connection that starts at i: the id is
\* greedy and gives back one character at a time ("-" is an id character)
\* until white space and an arrow follow (and a target, when withTarget)
RECURSIVE SourceEnd(_, _, _, _)
SourceEnd(s, i, a, withTarget) ==
  IF a <= i THEN 0
  ELSE IF Completes(s, ArrowAfter(s, a), withTarget) THEN a
  ELSE SourceEnd(s, i, a - 1, withTarget)
ConnSourceEnd(s, i, withTarget) ==
  IF WordBoundary(s, i) /\ IsId(s, i) THEN SourceEnd(s, i, SkipId(s, i), withTarget)
  ELSE 0
\* /\b([A-Za-z0-9_-]+)\s*(?:-->|...|===)/g at i (processDefinition)
HeadAfter(s, a) == IF a > 0 THEN ArrowAfter(s, a) ELSE 0
ConnHead(s, i) == HeadAfter(s, ConnSourceEnd(s, i, FALSE))
\* /\b([A-Za-z0-9_-]+)\s*(?:-->|...|===)\s*([A-Za-z0-9_-]+)/g at i
TargetAfter(s, a) == IF a > 0 THEN Target(s, ArrowAfter(s, a)) ELSE 0
Conn(s, i) == TargetAfter(s, ConnSourceEnd(s, i, TRUE))
ConnFrom(s, i) == SubSeq(s, i, ConnSourceEnd(s, i, TRUE) - 1)
IdAt(s, t) == SubSeq(s, t, SkipId(s, t) - 1)
ConnTo(s, i) == IdAt(s, SkipWs(s, ArrowAfter(s, ConnSourceEnd(s, i, TRUE))))

\* new RegExp(`\\b${nodeId}\\b(?!\\s*(?:\\[|\\(|\\{))`) at p
BareReference(s, p, nodeId) ==
  /\ HasAt(s, p, nodeId)
  /\ WordBoundary(s, p)
  /\ WordBoundary(s, p + Len(nodeId))
  /\ Ch(s, SkipWs(s, p + Len(nodeId))) \notin {"[", "(", "{"}
\* line.replace(that expression, `${nodeId}[${nodeId}]`): the first match only
DefineAt(line, nodeId, p) ==
  IF p = 0 THEN line
  ELSE SubSeq(line, 1, p - 1) \o nodeId \o "[" \o nodeId \o "]"
         \o From(line, p + Len(nodeId))
DefineInline(line, nodeId) ==
  DefineAt(line, nodeId,
           NextMatch(LAMBDA s, i : IF BareReference(s, i, nodeId) THEN i + 1 ELSE 0,
                     line, 1))

\* the lines that the passes over the lines leave alone
StartsPassThrough(t) ==
  \/ startsWith(t, "%")
  \/ startsWith(t, "graph")
  \/ startsWith(t, "flowchart")
  \/ startsWith(t, "subgraph")
  \/ startsWith(t, "end")
IsPassThrough(line) == StartsPassThrough(trim(line))

\* the loop over connRegex.exec(line) of processDefinition: connRegex keeps
\* its lastIndex while the line it is run on is replaced
RECURSIVE DefineSources(_, _, _)
DefineSource(line, nodeId, lastIndex, definedNodes) ==
  DefineSources(IF /\ nodeId \notin definedNodes
                   /\ ~includes(line, nodeId \o "[")
                   /\ ~includes(line, nodeId \o "(")
                   /\ ~includes(line, nodeId \o "{")
                THEN DefineInline(line, nodeId) ELSE line,
                lastIndex, definedNodes)
DefineSourceAt(line, j, definedNodes) ==
  IF j = 0 THEN line
  ELSE DefineSource(line, SubSeq(line, j, ConnSourceEnd(line, j, FALSE) - 1),
                    ConnHead(line, j), definedNodes)
DefineSources(line, i, definedNodes) ==
  DefineSourceAt(line, NextMatch(ConnHead, line, i), definedNodes)
ProcessLine(line, definedNodes) ==
  IF IsPassThrough(line) THEN line ELSE DefineSources(line, 1, definedNodes)
RECURSIVE ProcessLines(_, _)
ProcessLines(lines, definedNodes) ==
  IF Len(lines) = 0 THEN <<>>
  ELSE <<ProcessLine(Head(lines), definedNodes)>> \o ProcessLines(Tail(lines), definedNodes)

\* /;\s*$/gm
TrailingSemicolon(s, i) == IF Ch(s, i) = ";" THEN WsThenEol(s, i + 1) ELSE 0

EmptyDiagram == "graph TD\n    A[Empty] --> B[Diagram]"

\* the replacements up to the loop over the lines
Normalize(s) ==
  Pass(Pass(Pass(Pass(Pass(
    ReplaceAll(CrLf, LAMBDA t, i, e : "\n", s),
    LAMBDA p : ReplaceAll(DuplicateDeclaration, FirstDeclaration, p)),
    LAMBDA p : ReplaceAll(LAMBDA t, i : InvalidArrow(t, i, "--"), LAMBDA t, i, e : "-->", p)),
    LAMBDA p : ReplaceAll(LAMBDA t, i : InvalidArrow(t, i, "=="), LAMBDA t, i, e : "==>", p)),
    FixIncompleteArrows),
    FixRepeatedDefinitions)
\* the defined nodes are collected, then the lines are processed one by one
DefineUndefined(processed) ==
  join(ProcessLines(split(processed), Range(CollectDefs(processed, 1, <<>>))))
StartsDeclaration(t) == startsWith(t, "graph") \/ startsWith(t, "flowchart")
\* "if (!processed.trim().startsWith('graph') && ...) processed = 'graph TD\n' + processed"
EnsureHeader(processed) ==
  IF ~StartsDeclaration(trim(processed)) THEN "graph TD\n" \o processed ELSE processed
processDefinition(definition) ==
  IF Falsy(definition) \/ trim(definition.str) = "" THEN EmptyDiagram
  ELSE Pass(Pass(Pass(Pass(trim(definition.str), Normalize), DefineUndefined),
                 LAMBDA p : ReplaceAll(TrailingSemicolon, LAMBDA t, i, e : "", p)),
            EnsureHeader)

(***************************************************************************)
(* validateAndFixDiagram: the DiagramValidator.                            *)
(***************************************************************************)
RepositoryDiagram == "graph TD\n    A[Repository] --> B[Components]"
\* `    ${node}[${node}]`
DefinitionLine(node) == "    " \o node \o "[" \o node \o "]"
\* `    ${from} --> ${to}`
EdgeLine(from, to) == "    " \o from \o " --> " \o to

\* first pass: the defined nodes, in the order in which the Set receives them
CollectLine(trimmedLine, definedNodes) ==
  IF IsPassThrough(trimmedLine) THEN definedNodes
  ELSE CollectDefs(trimmedLine, 1, definedNodes)
RECURSIVE CollectPass(_, _)
CollectPass(lines, definedNodes) ==
  IF Len(lines) = 0 THEN definedNodes
  ELSE CollectPass(Tail(lines), CollectLine(trim(Head(lines)), definedNodes))

\* "if (!definedNodes.has(node)) { definedNodes.add(node); validatedLines.push(...) }"
DefineIfMissing(st, node) ==
  IF node \in Range(st.definedNodes) THEN st
  ELSE [st EXCEPT !.definedNodes = Append(@, node),
                  !.validatedLines = Append(@, DefinitionLine(node))]
\* the loop over connRegex.exec(trimmedLine) of the second pass
RECURSIVE FixConnections(_, _, _)
FixConnectionAt(t, j, st) ==
  IF j = 0 THEN st
  ELSE FixConnections(t, Conn(t, j),
         [DefineIfMissing(DefineIfMissing(st, ConnFrom(t, j)), ConnTo(t, j))
            EXCEPT !.hasConnection = TRUE, !.hasValidConnection = TRUE])
FixConnections(t, i, st) == FixConnectionAt(t, NextMatch(Conn, t, i), st)
\* validatedLines.push(line)
KeepLine(st, line) == [st EXCEPT !.validatedLines = Append(@, line)]
\* a line that is no pass-through line, after the loop over its connections
FixContentLine(line, trimmedLine, fixed) ==
  IF fixed.hasConnection THEN KeepLine(fixed, line)
  ELSE IF Len(trimmedLine) > 0 /\ HasNodeDef(trimmedLine) THEN KeepLine(fixed, line)
  ELSE fixed
FixTrimmed(line, trimmedLine, st) ==
  IF IsPassThrough(trimmedLine) THEN KeepLine(st, line)
  ELSE FixContentLine(line, trimmedLine,
                      FixConnections(trimmedLine, 1, [st EXCEPT !.hasConnection = FALSE]))
\* one line of the second pass
FixLine(line, st) == FixTrimmed(line, trim(line), st)
RECURSIVE FixPass(_, _)
FixPass(lines, st) ==
  IF Len(lines) = 0 THEN st
  ELSE Pass(FixLine(Head(lines), st), LAMBDA fixed : FixPass(Tail(lines), fixed))

\* no connection is created
CreateNoConnection(st) == st.validatedLines
\* "if (!hasValidConnection && definedNodes.size > 0)": create one connection
CreateConnection(st) ==
  LET nodeArray == st.definedNodes
  IN IF st.hasValidConnection \/ Len(nodeArray) = 0 THEN st.validatedLines
     ELSE IF Len(nodeArray) >= 2
     THEN Append(st.validatedLines, EdgeLine(nodeArray[1], nodeArray[2]))
     ELSE st.validatedLines \o <<EdgeLine(nodeArray[1], "Unknown"), DefinitionLine("Unknown")>>

IsDeclarationLine(line) == StartsDeclaration(trim(line))
\* lines.filter(...)
RECURSIVE DeclarationLines(_)
DeclarationLines(lines) ==
  IF Len(lines) = 0 THEN <<>>
  ELSE (IF IsDeclarationLine(Head(lines)) THEN <<Head(lines)>> ELSE <<>>)
         \o DeclarationLines(Tail(lines))

\* the declarations of the input, or 'graph TD', then the validated lines
Assemble(declarations, validatedLines) ==
  (IF declarations = "" THEN "graph TD" ELSE declarations) \o "\n" \o join(validatedLines)
\* without the test of definedNodes.size
ValidatedAlways(lines, st) == Assemble(join(DeclarationLines(lines)), CreateConnection(st))
\* st is the state after the second pass
Validated(lines, st) ==
  IF Len(st.definedNodes) = 0 THEN RepositoryDiagram
  ELSE Assemble(join(DeclarationLines(lines)), CreateConnection(st))
ValidateLines(lines) ==
  Pass(Pass(CollectPass(lines, <<>>),
            LAMBDA definedNodes : FixPass(lines, [validatedLines |-> <<>>,
                                                  definedNodes |-> definedNodes,
                                                  hasConnection |-> FALSE,
                                                  hasValidConnection |-> FALSE])),
       LAMBDA st : Validated(lines, st))
validateAndFixDiagram(diagram) ==
  IF Falsy(diagram) \/ trim(diagram.str) = "" THEN EmptyDiagram
  ELSE Pass(split(diagram.str), ValidateLines)

(***************************************************************************)
(* createFallbackDiagram: the FallbackSynthesizer.                         *)
(***************************************************************************)
FeaturesDiagram ==
  "graph TD\n    A[Repository] --> B[Components]\n    B --> C[Features]"

\* cleanedDiagram: the incomplete arrows, the repeated definitions and the
\* trailing semicolons, on the text as given (not trimmed)
cleanedDiagram(originalDiagram) ==
  Pass(Pass(FixIncompleteArrows(originalDiagram), FixRepeatedDefinitions),
       LAMBDA p : ReplaceAll(TrailingSemicolon, LAMBDA t, i, e : "", p))

\* nodeMatch[2] || nodeMatch[3] || nodeMatch[4] || nodeId, for the definition
\* that starts at j: the text in the brackets, the id when that is empty
LabelOr(label, nodeId) == IF label = "" THEN nodeId ELSE label
LabelAt(s, j) ==
  LabelOr(SubSeq(s, SkipWs(s, SkipId(s, j)) + 1, NodeDef(s, j) - 2), IdAt(s, j))
\* the loop over nodeDefRegex.exec(line): nodes.add and nodeLabels[nodeId] = label.
\* An assignment to nodeLabels.__proto__ of a string is ignored.
SetLabel(nodeLabels, nodeId, label) ==
  IF nodeId = "__proto__" THEN nodeLabels ELSE (nodeId :> label) @@ nodeLabels
RECURSIVE ExtractNodes(_, _, _)
ExtractNodeAt(line, j, ex) ==
  IF j = 0 THEN ex
  ELSE ExtractNodes(line, NodeDef(line, j),
         [ex EXCEPT !.nodes = AddOnce(@, IdAt(line, j)),
                    !.nodeLabels = SetLabel(@, IdAt(line, j), LabelAt(line, j))])
ExtractNodes(line, i, ex) == ExtractNodeAt(line, NextMatch(NodeDef, line, i), ex)

\* /\s+/g
WsRun(s, i) == IF IsWs(s, i) THEN SkipWs(s, i) ELSE 0
\* connectionText: white space collapsed, then the six replacements of
\* incomplete arrows without flag m.  The collapsed text of a line holds no
\* line terminator, so that "$" is the end of the text with and without it.
connectionText(line) ==
  Pass(ReplaceAll(WsRun, LAMBDA t, i, e : " ", line), FixIncompleteArrows)

\* (?:-->|...|===|~~~>|--\*|==\*) at b, followed by \s*([A-Za-z0-9_-]+): the
\* position after the first alternative that completes the match, or 0
PatternArrowEnd(s, b) ==
  IF Target(s, ArrowEnd(s, b)) > 0 THEN ArrowEnd(s, b)
  ELSE IF HasAt(s, b, "~~~>") /\ Target(s, b + 4) > 0 THEN b + 4
  ELSE IF (HasAt(s, b, "--*") \/ HasAt(s, b, "==*")) /\ Target(s, b + 3) > 0 THEN b + 3
  ELSE 0
\* the end of the source id of a match of connectionPattern that starts at i:
\* the id is greedy and gives back one character at a time
RECURSIVE PatternSourceEnd(_, _, _)
PatternSourceEnd(s, i, a) ==
  IF a <= i THEN 0
  ELSE IF PatternArrowEnd(s, SkipWs(s, a)) > 0 THEN a
  ELSE PatternSourceEnd(s, i, a - 1)
PatternSource(s, i) == IF IsId(s, i) THEN PatternSourceEnd(s, i, SkipId(s, i)) ELSE 0
\* connectionPattern at i: the position after the match, or 0
PatternTarget(s, a) == IF a > 0 THEN Target(s, PatternArrowEnd(s, SkipWs(s, a))) ELSE 0
connectionPattern(s, i) == PatternTarget(s, PatternSource(s, i))
\* the loop over connectionPattern.exec(connectionText); a is the end of the
\* source id of the match that starts at j
RECURSIVE ExtractConnections(_, _, _)
AddConnection(ex, from, to) ==
  [ex EXCEPT !.connections = Append(@, <<from, to>>),
             !.nodes = AddOnce(AddOnce(@, from), to)]
ExtractConnection(s, j, a, ex) ==
  ExtractConnections(s, PatternTarget(s, a),
    AddConnection(ex, SubSeq(s, j, a - 1),
                  IdAt(s, SkipWs(s, PatternArrowEnd(s, SkipWs(s, a))))))
ExtractConnectionAt(s, j, ex) ==
  IF j = 0 THEN ex ELSE ExtractConnection(s, j, PatternSource(s, j), ex)
ExtractConnections(s, i, ex) ==
  ExtractConnectionAt(s, NextMatch(connectionPattern, s, i), ex)

\* the callback of lines.forEach
ExtractLine(line, ex) ==
  IF startsWith(trim(line), "%") THEN ex
  ELSE Pass(Pass(ExtractNodes(line, 1, ex),
                 LAMBDA found : [text |-> connectionText(line), ex |-> found]),
            LAMBDA c : ExtractConnections(c.text, 1, c.ex))
RECURSIVE ExtractLines(_, _)
ExtractLines(lines, ex) ==
  IF Len(lines) = 0 THEN ex
  ELSE Pass(ExtractLine(Head(lines), ex), LAMBDA found : ExtractLines(Tail(lines), found))

\* nodeLabels[node] || node.  nodeLabels is a plain object: a node without a
\* label of its own that is named like a property of Object.prototype gets
\* that property, as a string.
ObjectPrototype ==
  [name \in {"constructor", "hasOwnProperty", "isPrototypeOf", "propertyIsEnumerable",
             "toLocaleString", "toString", "valueOf", "__defineGetter__",
             "__defineSetter__", "__lookupGetter__", "__lookupSetter__"}
     |-> "function " \o (IF name = "constructor" THEN "Object" ELSE name)
           \o "() { [native code] }"]
    @@ ("__proto__" :> "[object Object]")
LabelOf(nodeLabels, node) ==
  IF node \in DOMAIN nodeLabels THEN nodeLabels[node]
  ELSE IF node \in DOMAIN ObjectPrototype THEN ObjectPrototype[node]
  ELSE node
\* nodes.forEach: `    ${node}[${label}]\n`
RECURSIVE NodeLines(_, _)
NodeLines(nodes, nodeLabels) ==
  IF Len(nodes) = 0 THEN ""
  ELSE "    " \o Head(nodes) \o "[" \o LabelOf(nodeLabels, Head(nodes)) \o "]\n"
         \o NodeLines(Tail(nodes), nodeLabels)
\* connections.forEach: `    ${conn.from} --> ${conn.to}\n`
RECURSIVE ConnectionLines(_)
ConnectionLines(connections) ==
  IF Len(connections) = 0 THEN ""
  ELSE EdgeLine(Head(connections)[1], Head(connections)[2]) \o "\n"
         \o ConnectionLines(Tail(connections))
\* the default diagram is the one of validateAndFixDiagram
fallbackRepository(ex) ==
  IF Len(ex.nodes) = 0 THEN RepositoryDiagram
  ELSE "graph TD\n" \o NodeLines(ex.nodes, ex.nodeLabels) \o ConnectionLines(ex.connections)
\* fallbackDiagram, before it is validated
fallbackDiagram(ex) ==
  IF Len(ex.nodes) = 0 THEN FeaturesDiagram
  ELSE "graph TD\n" \o NodeLines(ex.nodes, ex.nodeLabels) \o ConnectionLines(ex.connections)
\* the guard without its test of white space
createFallbackUntrimmed(originalDiagram) ==
  IF Falsy(originalDiagram) THEN EmptyDiagram
  ELSE validateAndFixDiagram(Str(fallbackDiagram(
         ExtractLines(split(cleanedDiagram(originalDiagram.str)),
                      [nodes |-> <<>>, nodeLabels |-> <<>>, connections |-> <<>>]))))
createFallbackDiagram(originalDiagram) ==
  IF Falsy(originalDiagram) \/ trim(originalDiagram.str) = "" THEN EmptyDiagram
  ELSE Pass(Pass(Pass(Pass(cleanedDiagram(originalDiagram.str), split),
                      LAMBDA lines : ExtractLines(lines, [nodes |-> <<>>,
                                                          nodeLabels |-> <<>>,
                                                          connections |-> <<>>])),
                 fallbackDiagram),
            LAMBDA t : validateAndFixDiagram(Str(t)))

(***************************************************************************)
(* ensurePerfectDiagram: the Repairer.                                     *)
(***************************************************************************)
UpperAlphabet == "ABCDEFGHIJKLMNOPQRSTUVWXYZ"
LowerAlphabet == "abcdefghijklmnopqrstuvwxyz"
\* String.prototype.toUpperCase and toLowerCase (ASCII)
RECURSIVE toUpperCase(_)
toUpperCase(s) ==
  IF s = "" THEN ""
  ELSE (IF Head(s) \in LowerChars
        THEN Ch(UpperAlphabet, IndexOf(LowerAlphabet, Head(s), 1)) ELSE Head(s))
         \o toUpperCase(Tail(s))
RECURSIVE toLowerCase(_)
toLowerCase(s) ==
  IF s = "" THEN ""
  ELSE (IF Head(s) \in UpperChars
        THEN Ch(LowerAlphabet, IndexOf(UpperAlphabet, Head(s), 1)) ELSE Head(s))
         \o toLowerCase(Tail(s))

diagramTypes == <<"graph", "flowchart", "sequenceDiagram", "classDiagram",
                  "stateDiagram", "erDiagram", "gantt", "pie", "journey">>
validDirections == {"TB", "TD", "BT", "RL", "LR"}

\* (graph|flowchart) with flag i at position 1: the position after it, or 0
KeywordIgnoreCase(s) ==
  IF Len(s) >= 5 /\ toLowerCase(SubSeq(s, 1, 5)) = "graph" THEN 6
  ELSE IF Len(s) >= 9 /\ toLowerCase(SubSeq(s, 1, 9)) = "flowchart" THEN 10 ELSE 0
\* /^(graph|flowchart)\s+([A-Z]{2})/i: the position after the match, or 0.
\* Two letters have to follow the white space, so \s+ is the longest run.
DirectionAfter(s, a, b) ==
  IF /\ a > 0 /\ b > a
     /\ Ch(s, b) \in UpperChars \cup LowerChars
     /\ Ch(s, b + 1) \in UpperChars \cup LowerChars
  THEN b + 2 ELSE 0
DirectionFrom(s, a) == DirectionAfter(s, a, SkipWs(s, a))
DirectionMatch(s) == DirectionFrom(s, KeywordIgnoreCase(s))
\* step 2: an invalid direction is replaced by `$1 TD`; e is the end of the match
FixDirectionAt(s, e) ==
  IF e > 0 /\ toUpperCase(SubSeq(s, e - 2, e - 1)) \notin validDirections
  THEN SubSeq(s, 1, KeywordIgnoreCase(s) - 1) \o " TD" \o From(s, e)
  ELSE s
FixDirection(s) == FixDirectionAt(s, DirectionMatch(s))

\* [^;\n]* from i: the position just after the longest run
RECURSIVE SkipStyle(_, _)
SkipStyle(s, i) ==
  IF i <= Len(s) /\ Ch(s, i) \notin {";", "\n"} THEN SkipStyle(s, i + 1) ELSE i
\* the largest position in lo..hi that holds a character of [^;\n], or 0
RECURSIVE LastStyleStart(_, _, _)
LastStyleStart(s, lo, hi) ==
  IF hi < lo THEN 0
  ELSE IF hi <= Len(s) /\ Ch(s, hi) \notin {";", "\n"} THEN hi
  ELSE LastStyleStart(s, lo, hi - 1)
\* /classDef\s+([A-Za-z0-9_-]+)\s+([^;\n]+)/g at i.  The second \s+ is greedy
\* and gives white space back to the style text when nothing else is left
\* for it.
ClassNameStart(s, i) == SkipWs(s, i + 8)
ClassNameEnd(s, i) == SkipId(s, ClassNameStart(s, i))
StyleAfter(s, a) == LastStyleStart(s, a + 1, SkipWs(s, a))
StyleStart(s, i) == StyleAfter(s, ClassNameEnd(s, i))
ClassDef(s, i) ==
  IF /\ HasAt(s, i, "classDef")
     /\ ClassNameStart(s, i) > i + 8
     /\ ClassNameEnd(s, i) > ClassNameStart(s, i)
     /\ StyleStart(s, i) > 0
  THEN SkipStyle(s, StyleStart(s, i)) ELSE 0
\* String.prototype.replace(pattern, replacement) with a string pattern
ReplaceAt(s, p, pattern, replacement) ==
  IF p = 0 THEN s
  ELSE SubSeq(s, 1, p - 1) \o replacement \o From(s, p + Len(pattern))
ReplaceFirst(s, pattern, replacement) ==
  ReplaceAt(s, IndexOf(s, pattern, 1), pattern, replacement)
fixedStyle == "fill:#f9f9f9,stroke:#666,stroke-width:1px"
\* step 3: the loop over classDefRegex.exec(perfectDiagram); the expression
\* keeps its lastIndex while perfectDiagram is replaced
RECURSIVE FixClassDefs(_, _)
FixClassDef(s, className, styleText, lastIndex) ==
  FixClassDefs(IF ~includes(styleText, ":") /\ ~startsWith(styleText, "{")
               THEN ReplaceFirst(s, "classDef " \o className \o " " \o styleText,
                                    "classDef " \o className \o " " \o fixedStyle)
               ELSE s,
               lastIndex)
FixClassDefAt(s, j) ==
  IF j = 0 THEN s
  ELSE FixClassDef(s, SubSeq(s, ClassNameStart(s, j), ClassNameEnd(s, j) - 1),
                   SubSeq(s, StyleStart(s, j), ClassDef(s, j) - 1), ClassDef(s, j))
FixClassDefs(s, i) == FixClassDefAt(s, NextMatch(ClassDef, s, i))

\* (text.match(/subgraph/g) || []).length and the like
CountFound(Rest(_), M(_, _), s, j) == IF j = 0 THEN 0 ELSE 1 + Rest(M(s, j))
RECURSIVE CountMatches(_, _, _)
CountMatches(M(_, _), s, i) ==
  CountFound(LAMBDA e : CountMatches(M, s, e), M, s, NextMatch(M, s, i))
SubgraphWord(s, i) == IF HasAt(s, i, "subgraph") THEN i + 8 ELSE 0
\* /\bend\b/g
EndWord(s, i) ==
  IF HasAt(s, i, "end") /\ WordBoundary(s, i) /\ WordBoundary(s, i + 3) THEN i + 3 ELSE 0
subgraphCount(s) == CountMatches(SubgraphWord, s, 1)
endCount(s) == CountMatches(EndWord, s, 1)
\* 'end'.repeat(n)
RECURSIVE repeatEnd(_)
repeatEnd(n) == IF n <= 0 THEN "" ELSE "end" \o repeatEnd(n - 1)
\* step 4: add the missing 'end' statements
AddEnds(s, missing) == IF missing > 0 THEN s \o "\n" \o repeatEnd(missing) ELSE s
CloseSubgraphs(s) == AddEnds(s, subgraphCount(s) - endCount(s))

\* the loop over connRegex.exec(perfectDiagram) of step 5
RECURSIVE CollectReferences(_, _, _)
CollectReferenceAt(s, j, acc) ==
  IF j = 0 THEN acc
  ELSE CollectReferences(s, Conn(s, j),
                         AddOnce(AddOnce(acc, ConnFrom(s, j)), ConnTo(s, j)))
CollectReferences(s, i, acc) == CollectReferenceAt(s, NextMatch(Conn, s, i), acc)
\* the first line that is no declaration and no comment (0-based), 0 when
\* every line is one
StartsHeaderOrComment(t) == StartsDeclaration(t) \/ startsWith(t, "%")
RECURSIVE InsertIndex(_, _)
InsertIndex(lines, i) ==
  IF i > Len(lines) THEN 0
  ELSE IF ~StartsHeaderOrComment(trim(lines[i])) THEN i - 1
  ELSE InsertIndex(lines, i + 1)
\* lines.splice(insertIndex, 0, line)
splice(lines, insertIndex, line) ==
  SubSeq(lines, 1, insertIndex) \o <<line>> \o SubSeq(lines, insertIndex + 1, Len(lines))
\* "for (const node of referencedNodes)"
RECURSIVE DefineReferences(_, _, _)
DefineReferences(referencedNodes, definedNodes, lines) ==
  IF Len(referencedNodes) = 0 THEN lines
  ELSE LET node == Head(referencedNodes)
       IN IF node \notin definedNodes /\ node # "Unknown"
          THEN DefineReferences(Tail(referencedNodes), definedNodes \cup {node},
                                splice(lines, InsertIndex(lines, 1), DefinitionLine(node)))
          ELSE DefineReferences(Tail(referencedNodes), definedNodes, lines)

HasValidType(s) == \E k \in 1..Len(diagramTypes) : startsWith(trim(s), diagramTypes[k])

\* step 1: a diagram type in front
EnsureType(s) == IF HasValidType(s) THEN s ELSE "graph TD\n" \o s
\* step 5: every referenced node gets a definition
DefineAllReferences(s) ==
  join(DefineReferences(CollectReferences(s, 1, <<>>),
                        Range(CollectDefs(s, 1, <<>>)),
                        split(s)))
\* steps 1 to 5, on the validated diagram
AdvancedFixes(validated) ==
  Pass(Pass(Pass(Pass(EnsureType(validated), FixDirection),
                 LAMBDA t : FixClassDefs(t, 1)),
            CloseSubgraphs),
       DefineAllReferences)
ensurePerfectDiagram(diagram) ==
  IF Falsy(diagram) \/ trim(diagram.str) = "" THEN EmptyDiagram
  ELSE Pass(Pass(processDefinition(diagram), LAMBDA t : validateAndFixDiagram(Str(t))),
            AdvancedFixes)

(***************************************************************************)
(* fixMismatchedBrackets of GeminiService                                  *)
(* (src/src/lib/gemini/gemini-service.ts): the bracket balancer.           *)
(***************************************************************************)
\* Object.entries(bracketPairs), in the order of the literal
bracketPairs == <<<<"(", ")">>, <<"[", "]">>, <<"{", "}">>, <<"<", ">">>>>
\* the count that the loop "for (const char of line)" leaves for a bracket
RECURSIVE CountChar(_, _)
CountChar(line, char) ==
  IF line = "" THEN 0
  ELSE (IF Ch(line, 1) = char THEN 1 ELSE 0) + CountChar(From(line, 2), char)
\* String.prototype.repeat; a count that is not positive gives ""
RECURSIVE repeat(_, _)
repeat(str, count) == IF count <= 0 THEN "" ELSE str \o repeat(str, count - 1)
\* openBrackets[open] - closeBrackets[close]
missingCount(line, pair) == CountChar(line, pair[1]) - CountChar(line, pair[2])
\* "for (const [open, close] of Object.entries(bracketPairs))", from entry k
RECURSIVE AddClosers(_, _, _)
AddClosers(line, fixedLine, k) ==
  IF k > Len(bracketPairs) THEN fixedLine
  ELSE AddClosers(line,
                  fixedLine \o repeat(bracketPairs[k][2], missingCount(line, bracketPairs[k])),
                  k + 1)
\* the callback of lines.map
FixBrackets(line) ==
  IF startsWith(trim(line), "%") \/ StartsDeclaration(trim(line)) THEN line
  ELSE AddClosers(line, line, 1)
RECURSIVE MapFixBrackets(_)
MapFixBrackets(lines) ==
  IF Len(lines) = 0 THEN <<>>
  ELSE <<FixBrackets(Head(lines))>> \o MapFixBrackets(Tail(lines))
fixMismatchedBrackets(text) == join(MapFixBrackets(split(text)))

(***************************************************************************)
(* The catch blocks of the text functions.  An exception inside a try      *)
(* block is an internal failure of the function: site "body" is a          *)
(* statement of the function's own try block (a call of processDefinition  *)
(* included, which has no try block of its own), site "validator" a        *)
(* statement of the try block of the validateAndFixDiagram call it makes.  *)
(***************************************************************************)
validateAndFixDiagramCatch ==
  "graph TD\n    A[Error] --> B[Occurred]\n    B --> C[Fallback]"
ensurePerfectDiagramCatch == "graph TD\n    A[Error] --> B[In] --> C[Processing]"
FailureSites(f) ==
  IF f \in {"createFallbackDiagram", "ensurePerfectDiagram"} THEN {"body", "validator"}
  ELSE {"body"}
Returns(text) == [thrown |-> FALSE, output |-> text]
Throws == [thrown |-> TRUE, output |-> ""]
\* the catch block of validateAndFixDiagram throws the error again
FailingRethrows(f, site) ==
  IF f = "processDefinition" \/ f = "validateAndFixDiagram" \/ site = "validator" THEN Throws
  ELSE IF f = "createFallbackDiagram" THEN Returns(RepositoryDiagram)
  ELSE Returns(ensurePerfectDiagramCatch)
\* what a call of f on a text that is not blank gives when a statement at
\* the site throws
Failing(f, site) ==
  IF f = "processDefinition" THEN Throws
  ELSE IF f = "validateAndFixDiagram" THEN Returns(validateAndFixDiagramCatch)
  ELSE IF f = "createFallbackDiagram"
  THEN Returns(IF site = "validator" THEN validateAndFixDiagramCatch ELSE RepositoryDiagram)
  ELSE Returns(IF site = "validator" THEN AdvancedFixes(validateAndFixDiagramCatch)
               ELSE ensurePerfectDiagramCatch)

(***************************************************************************)
(* renderDiagram: the render pipeline of the component.                    *)
(***************************************************************************)
\* /[^a-zA-Z0-9\s\[\]\-_>]/g
AllowedChars == WordChars \cup WsChars \cup {"[", "]", "-", ">"}
Disallowed(s, i) ==
  IF i >= 1 /\ i <= Len(s) /\ Ch(s, i) \notin AllowedChars THEN i + 1 ELSE 0
\* the processed definition is sanitized instead of the prop
sanitizedProcessed(s) ==
  ReplaceAll(Disallowed, LAMBDA t, i, e : "", processDefinition(Str(s)))
sanitizedDefinition(s) == ReplaceAll(Disallowed, LAMBDA t, i, e : "", s)
minimalDiagram == "graph TD\n    A[Error] --> B[Rendering Failed]"
manualSvg ==
  "<svg xmlns=\"http://www.w3.org/2000/svg\" width=\"100%\" height=\"100%\" viewBox=\"0 0 200 100\">\n" \o
  "            <rect width=\"100%\" height=\"100%\" fill=\"#f5f5f5\"/>\n" \o
  "            <text x=\"50%\" y=\"50%\" font-family=\"Arial\" font-size=\"14\" text-anchor=\"middle\">Diagram Rendering Failed</text>\n" \o
  "          </svg>"
\* the markup that the render engine returns for a text it accepts
RenderedSvg(text) == "<svg>" \o text \o "</svg>"

Tiers == <<"Primary", "Sanitized", "Minimal", "Manual">>

VARIABLES
  diagramDefinition,  \* the prop of the component
  renderMode,         \* useState: "mermaid" or "fallback"
  errorMessage,       \* useState
  diagramSvg,         \* useState: the displayed markup
  effectPending,      \* the effect that calls renderDiagram is scheduled
  runs,               \* the calls of renderDiagram, in the order of their start
  shownBy,            \* the run that stored diagramSvg last (0: none)
  input,              \* the argument of a text function
  applied,            \* the text function applied to it ("none": not yet)
  output,             \* what it returned
  again,              \* TRUE once the function was applied to its own output
  reapplied,          \* what it then returned
  failure,            \* the site of an exception inside the call ("none": none)
  thrown              \* TRUE when the call threw instead of returning

renderVars == <<diagramDefinition, renderMode, errorMessage, diagramSvg,
                effectPending, runs, shownBy>>
textVars == <<input, applied, output, again, reapplied, failure, thrown>>
vars == <<diagramDefinition, renderMode, errorMessage, diagramSvg,
          effectPending, runs, shownBy, input, applied, output, again, reapplied,
          failure, thrown>>

\* the number of calls of renderDiagram in a behaviour
MaxRuns == 2
\* the props that the component is given
RenderInputs ==
  {Undefined, Str(""), Str("   "), Str("A --> B"), Str("hello world"),
   Str("graph TD\nA[a] --> B{b};"), Str("hello")}

\* the component as mounted: the three useState values of lines 19-21
Mounted ==
  /\ renderMode = "mermaid"
  /\ errorMessage = ""
  /\ diagramSvg = ""
  /\ runs = <<>>
  /\ shownBy = 0
NoText ==
  /\ input = Undefined
  /\ applied = "none"
  /\ output = ""
  /\ again = FALSE
  /\ reapplied = ""
  /\ failure = "none"
  /\ thrown = FALSE

Init ==
  /\ diagramDefinition \in RenderInputs
  /\ effectPending = TRUE
  /\ Mounted
  /\ NoText

\* a call of renderDiagram that awaits mermaid.render(text) for the tier pc
Awaiting(definition) ==
  [definition |-> definition, pc |-> "primary",
   text |-> processDefinition(definition),
   attempts |-> <<"Primary">>, outcomes |-> <<>>, calls |-> 1,
   tier |-> "None", markup |-> ""]
\* a call of renderDiagram that returned at line 471
Returned(definition) ==
  [definition |-> definition, pc |-> "done", text |-> "",
   attempts |-> <<>>, outcomes |-> <<>>, calls |-> 0,
   tier |-> "None", markup |-> ""]

\* the parent gives the component another diagramDefinition: renderDiagram is
\* a new callback and the effect of lines 520-522 is scheduled
PropChange(d) ==
  /\ d # diagramDefinition
  /\ Len(runs) + (IF effectPending THEN 1 ELSE 0) < MaxRuns
  /\ diagramDefinition' = d
  /\ effectPending' = TRUE
  /\ UNCHANGED <<renderMode, errorMessage, diagramSvg, runs, shownBy>>
  /\ UNCHANGED textVars

\* the effect runs renderDiagram up to its first await
renderDiagram ==
  /\ effectPending
  /\ effectPending' = FALSE
  /\ IF Falsy(diagramDefinition)
     THEN /\ diagramSvg' = ""
          /\ runs' = Append(runs, Returned(diagramDefinition))
          /\ shownBy' = Len(runs) + 1
     ELSE /\ runs' = Append(runs, Awaiting(diagramDefinition))
          /\ UNCHANGED <<diagramSvg, shownBy>>
  /\ UNCHANGED <<diagramDefinition, renderMode, errorMessage>>
  /\ UNCHANGED textVars

\* what a run stores when the render call of its tier succeeds
TierOf(pc) ==
  IF pc = "primary" THEN "Primary" ELSE IF pc = "sanitized" THEN "Sanitized" ELSE "Minimal"
ModeOf(pc) == IF pc = "primary" THEN "mermaid" ELSE "fallback"
MessageOf(pc) ==
  IF pc = "primary" THEN ""
  ELSE IF pc = "sanitized" THEN "Diagram was simplified due to syntax issues"
  ELSE "Failed to render diagram due to syntax errors"

\* mermaid.render resolves for run i: the run stores the result of its tier
RenderResolves(i) ==
  /\ runs[i].pc \in {"primary", "sanitized", "minimal"}
  /\ diagramSvg' = RenderedSvg(runs[i].text)
  /\ renderMode' = ModeOf(runs[i].pc)
  /\ errorMessage' = MessageOf(runs[i].pc)
  /\ shownBy' = i
  /\ runs' = [runs EXCEPT ![i] =
                [@ EXCEPT !.pc = "done",
                          !.outcomes = Append(@, "succeeded"),
                          !.tier = TierOf(runs[i].pc),
                          !.markup = RenderedSvg(runs[i].text)]]
  /\ UNCHANGED <<diagramDefinition, effectPending>>
  /\ UNCHANGED textVars

\* the catch block that a rejected render call of run r enters: the next
\* tier's render call, or the manual markup after the third
CatchSkipsSanitized(r) ==
  IF r.pc = "minimal"
  THEN [r EXCEPT !.pc = "done", !.outcomes = Append(@, "failed"),
                 !.attempts = Append(@, "Manual"), !.tier = "Manual",
                 !.markup = manualSvg]
  ELSE [r EXCEPT !.pc = "minimal", !.text = minimalDiagram,
                 !.outcomes = Append(@, "failed"),
                 !.attempts = Append(@, "Minimal"), !.calls = @ + 1]
CatchRendersManual(r) ==
  IF r.pc = "primary"
  THEN [r EXCEPT !.pc = "sanitized", !.text = sanitizedDefinition(r.definition.str),
                 !.outcomes = Append(@, "failed"),
                 !.attempts = Append(@, "Sanitized"), !.calls = @ + 1]
  ELSE IF r.pc = "sanitized"
  THEN [r EXCEPT !.pc = "minimal", !.text = minimalDiagram,
                 !.outcomes = Append(@, "failed"),
                 !.attempts = Append(@, "Minimal"), !.calls = @ + 1]
  ELSE [r EXCEPT !.pc = "done", !.outcomes = Append(@, "failed"),
                 !.attempts = Append(@, "Manual"), !.tier = "Manual",
                 !.markup = RenderedSvg(manualSvg), !.calls = @ + 1]
Catch(r) ==
  IF r.pc = "primary"
  THEN [r EXCEPT !.pc = "sanitized", !.text = sanitizedDefinition(r.definition.str),
                 !.outcomes = Append(@, "failed"),
                 !.attempts = Append(@, "Sanitized"), !.calls = @ + 1]
  ELSE IF r.pc = "sanitized"
  THEN [r EXCEPT !.pc = "minimal", !.text = minimalDiagram,
                 !.outcomes = Append(@, "failed"),
                 !.attempts = Append(@, "Minimal"), !.calls = @ + 1]
  ELSE [r EXCEPT !.pc = "done", !.outcomes = Append(@, "failed"),
                 !.attempts = Append(@, "Manual"), !.tier = "Manual",
                 !.markup = manualSvg]

\* mermaid.render rejects for run i
RenderRejects(i) ==
  /\ runs[i].pc \in {"primary", "sanitized", "minimal"}
  /\ runs' = [runs EXCEPT ![i] = Catch(runs[i])]
  /\ IF runs[i].pc = "minimal"
     THEN /\ diagramSvg' = Catch(runs[i]).markup
          /\ renderMode' = "fallback"
          /\ errorMessage' = "Failed to render diagram"
          /\ shownBy' = i
     ELSE UNCHANGED <<diagramSvg, renderMode, errorMessage, shownBy>>
  /\ UNCHANGED <<diagramDefinition, effectPending>>
  /\ UNCHANGED textVars

Next ==
  \/ \E d \in RenderInputs : PropChange(d)
  \/ renderDiagram
  \/ \E i \in 1..Len(runs) : RenderResolves(i)
  \/ \E i \in 1..Len(runs) : RenderRejects(i)

Spec == Init /\ [][Next]_vars

(***************************************************************************)
(* The text functions applied to bounded inputs: a text of at most         *)
(* MaxLines lines, each one of TextLines, or no text at all.               *)
(***************************************************************************)
MaxLines == 3
TextLines ==
  {"graph TD", "graph TB", "graph XYZ", "A --> B", "B[B] --> C", "A[a] --> B[b];",
   "subgraph S", "end", "hello world", "A -->"}
TextInputs ==
  {Undefined, Str("")} \cup
  {Str(join(ls)) : ls \in UNION {[1..n -> TextLines] : n \in 1..MaxLines}}

Functions == {"processDefinition", "validateAndFixDiagram", "ensurePerfectDiagram"}
Apply(f, v) ==
  IF f = "processDefinition" THEN processDefinition(v)
  ELSE IF f = "validateAndFixDiagram" THEN validateAndFixDiagram(v)
  ELSE IF f = "createFallbackDiagram" THEN createFallbackDiagram(v)
  ELSE IF f = "fixMismatchedBrackets" THEN fixMismatchedBrackets(v.str)
  ELSE ensurePerfectDiagram(v)

\* the component is mounted without a diagram and stays idle
Idle ==
  /\ diagramDefinition = Undefined
  /\ effectPending = FALSE
  /\ Mounted

InitText ==
  /\ input \in TextInputs
  /\ applied = "none"
  /\ output = ""
  /\ again = FALSE
  /\ reapplied = ""
  /\ failure = "none"
  /\ thrown = FALSE
  /\ Idle

\* a call f(input)
Call(f) ==
  /\ applied = "none"
  /\ applied' = f
  /\ output' = Apply(f, input)
  /\ UNCHANGED <<input, again, reapplied, failure, thrown>>
  /\ UNCHANGED renderVars

\* a second call, on the result of the first: f(f(input))
CallAgain ==
  /\ applied # "none"
  /\ ~thrown
  /\ ~again
  /\ again' = TRUE
  /\ reapplied' = Apply(applied, Str(output))
  /\ UNCHANGED <<input, applied, output, failure, thrown>>
  /\ UNCHANGED renderVars

NextText ==
  \/ \E f \in Functions : Call(f)
  \/ CallAgain

SpecText == InitText /\ [][NextText]_vars

(***************************************************************************)
(* The four text functions, createFallbackDiagram included, on texts of at *)
(* most MaxCaseLines lines, each one of CaseLines, and on blank texts;     *)
(* with calls in which a statement throws.                                 *)
(***************************************************************************)
MaxCaseLines == 2
CaseLines ==
  {"graph TD", "%% note", "subgraph S", "end", "hello world", "A[a]", "B(b)",
   "B --> C"}
CaseInputs ==
  {Undefined, Str(""), Str("   "), Str(" \n\t"), Str(" ")} \cup
  {Str(join(ls)) : ls \in UNION {[1..n -> CaseLines] : n \in 1..MaxCaseLines}}
AllFunctions == Functions \cup {"createFallbackDiagram"}

InitCases ==
  /\ input \in CaseInputs
  /\ applied = "none"
  /\ output = ""
  /\ again = FALSE
  /\ reapplied = ""
  /\ failure = "none"
  /\ thrown = FALSE
  /\ Idle

\* a call f(input) in which a statement at the site throws: the guard of f
\* returns before the try block when the text is blank
CallFailing(f, site) ==
  /\ applied = "none"
  /\ ~(Falsy(input) \/ trim(input.str) = "")
  /\ applied' = f
  /\ failure' = site
  /\ output' = Failing(f, site).output
  /\ thrown' = Failing(f, site).thrown
  /\ UNCHANGED <<input, again, reapplied>>
  /\ UNCHANGED renderVars

NextCases ==
  \/ \E f \in AllFunctions : Call(f)
  \/ CallAgain
  \/ \E f \in AllFunctions : \E site \in FailureSites(f) : CallFailing(f, site)

SpecCases == InitCases /\ [][NextCases]_vars

(***************************************************************************)
(* processDefinition on texts with arrows that lack a target, with long    *)
(* arrows and with a definition that is written twice: at most             *)
(* MaxArrowLines lines, each one of ArrowLines.                            *)
(***************************************************************************)
MaxArrowLines == 2
ArrowLines ==
  {"graph TD", "    A --> ", "A ==", "A -.;", "A --;", "B ==> ;", "A -.->",
   "A ==> B;", "A -.-> B", "A --> B", "A ---> B", "A[x] A[x] -- B"}
ArrowInputs ==
  {Str(join(ls)) : ls \in UNION {[1..n -> ArrowLines] : n \in 1..MaxArrowLines}}

InitArrows ==
  /\ input \in ArrowInputs
  /\ applied = "none"
  /\ output = ""
  /\ again = FALSE
  /\ reapplied = ""
  /\ failure = "none"
  /\ thrown = FALSE
  /\ Idle

NextArrows ==
  \/ Call("processDefinition")
  \/ CallAgain

SpecArrows == InitArrows /\ [][NextArrows]_vars

(***************************************************************************)
(* The three text functions on texts with lines that begin with a keyword  *)
(* without being one, with classDef lines and with arrows in comments: at  *)
(* most MaxRepairLines lines, each one of RepairLines, and one text of     *)
(* three lines with a node line that begins with "graph".                  *)
(***************************************************************************)
MaxRepairLines == 2
RepairLines ==
  {"graph TD", "%% A --> B", "A[a]", "X --> Y", "endpoint --> db",
   "endpoint[API] --> db", "graphql[GraphQL]", "endless loop",
   "classDef x red", "classDef y fill:#fff"}
RepairInputs ==
  {Str(join(ls)) : ls \in UNION {[1..n -> RepairLines] : n \in 1..MaxRepairLines}}
    \cup {Str("A[a]\ngraphql[GraphQL]\nendpoint --> db")}

InitRepair ==
  /\ input \in RepairInputs
  /\ applied = "none"
  /\ output = ""
  /\ again = FALSE
  /\ reapplied = ""
  /\ failure = "none"
  /\ thrown = FALSE
  /\ Idle

NextRepair ==
  \/ \E f \in Functions : Call(f)
  \/ CallAgain

SpecRepair == InitRepair /\ [][NextRepair]_vars

(***************************************************************************)
(* fixMismatchedBrackets on every text of at most MaxBracketLen characters *)
(* of BracketChars, and on texts with a declaration or a comment.          *)
(***************************************************************************)
MaxBracketLen == 3
BracketChars == {"(", ")", "[", "]", "{", "}", "<", ">", "a", "\n"}
RECURSIVE Texts(_, _)
Texts(chars, n) ==
  IF n = 0 THEN {""}
  ELSE {""} \cup {c \o t : c \in chars, t \in Texts(chars, n - 1)}
BracketInputs ==
  {Str(t) : t \in Texts(BracketChars, MaxBracketLen)}
    \cup {Str("graph TD\nA[a --> B{b"), Str("%% (note\nC((c"), Str("  flowchart LR {\n  A --> B>b]"),
          Str("graphql[GraphQL\nA[a] --> B[b]")}

InitBrackets ==
  /\ input \in BracketInputs
  /\ applied = "none"
  /\ output = ""
  /\ again = FALSE
  /\ reapplied = ""
  /\ failure = "none"
  /\ thrown = FALSE
  /\ Idle

NextBrackets ==
  \/ Call("fixMismatchedBrackets")
  \/ CallAgain

SpecBrackets == InitBrackets /\ [][NextBrackets]_vars

(***************************************************************************)
(* The render pipeline: claims C1 to C5.                                   *)
(***************************************************************************)
Run(i) == runs[i]
Finished(i) == runs[i].pc = "done"
AllFailed(r) == \A k \in 1..Len(r.outcomes) : r.outcomes[k] = "failed"
\* the notice of lines 536-542 is rendered
NoticeVisible == renderMode = "fallback" /\ errorMessage # ""
\* the tier that produced the displayed markup ("None": no tier did)
ShownTier == IF shownBy = 0 THEN "None" ELSE runs[shownBy].tier

\* C1: every finished pipeline run has stored non-empty markup that one of
\* the four tiers produced, for every input, the empty and the absent one
\* included.
C1_Totality ==
  \A i \in 1..Len(runs) :
    Finished(i) =>
      /\ runs[i].tier \in Range(Tiers)
      /\ runs[i].markup # ""
      /\ (shownBy = i => diagramSvg = runs[i].markup /\ diagramSvg # "")

\* C2: the tiers of a run are attempted in the order Primary, Sanitized,
\* Minimal, Manual, none skipped or repeated, each after the failure of the
\* render call before it and none after a success; a run whose render call
\* is pending has attempted no later tier and has no result.
C2_TierOrder ==
  \A i \in 1..Len(runs) :
    LET r == runs[i]
        n == Len(r.attempts)
    IN /\ r.attempts = SubSeq(Tiers, 1, n)
       /\ \A k \in 1..Len(r.outcomes) :
            /\ k < n => r.outcomes[k] = "failed"
            /\ r.outcomes[k] = "succeeded" => k = n /\ r.pc = "done"
       /\ r.pc # "done" =>
            /\ n >= 1
            /\ TierOf(r.pc) = r.attempts[n]
            /\ Len(r.outcomes) = n - 1
            /\ r.tier = "None"
            /\ r.markup = ""
            /\ shownBy # i
       /\ (r.pc = "done" /\ n >= 1) => r.tier = r.attempts[n]
\* a run awaits the render call of the third tier after two failures
C2_Witness ==
  \E i \in 1..Len(runs) :
    /\ runs[i].pc = "minimal"
    /\ runs[i].attempts = <<"Primary", "Sanitized", "Minimal">>
    /\ runs[i].outcomes = <<"failed", "failed">>

\* C3: once the newest-started run has stored the result of its tier, the
\* displayed result is the one that run stored: a completion of an older
\* run does not overwrite it.
C3_NewestRunWins ==
  (/\ Len(runs) > 0
   /\ ~effectPending
   /\ Finished(Len(runs))
   /\ runs[Len(runs)].tier \in Range(Tiers)) => shownBy = Len(runs)

\* C4: a run whose three render calls failed ends in the Manual tier with the
\* static markup, stored without a fourth call of the render engine; a run
\* in the Manual tier is finished and no render call of it can fail any
\* more; no run ends in any other way (no exception escapes).
C4_ManualAbsorbs ==
  \A i \in 1..Len(runs) :
    LET r == runs[i]
    IN /\ r.pc \in {"primary", "sanitized", "minimal", "done"}
       /\ (Len(r.outcomes) = 3 /\ AllFailed(r)) =>
            /\ r.pc = "done"
            /\ r.tier = "Manual"
            /\ r.markup = manualSvg
            /\ r.calls = 3
       /\ r.tier = "Manual" =>
            /\ r.outcomes = <<"failed", "failed", "failed">>
            /\ ~ENABLED RenderRejects(i)
            /\ ~ENABLED RenderResolves(i)
            /\ shownBy = i =>
                 /\ diagramSvg = manualSvg
                 /\ renderMode = "fallback"
                 /\ errorMessage = "Failed to render diagram"
\* the markup of the Manual tier is displayed
C4_Witness ==
  \E i \in 1..Len(runs) :
    /\ runs[i].tier = "Manual"
    /\ runs[i].calls = 3
    /\ shownBy = i
    /\ diagramSvg = manualSvg

\* C5: once a run has finished, a diagram is displayed; the notice is
\* visible only if a tier other than Primary produced the displayed markup;
\* markup of the Primary tier is displayed in mode "mermaid" with an empty
\* message.
C5_NoticeInvariant ==
  (\E i \in 1..Len(runs) : Finished(i)) =>
    /\ diagramSvg # ""
    /\ NoticeVisible => ShownTier \in {"Sanitized", "Minimal", "Manual"}
    /\ ShownTier = "Primary" => renderMode = "mermaid" /\ errorMessage = ""

(***************************************************************************)
(* The text functions: claims C6 to C10.                                   *)
(***************************************************************************)
Called(f) == applied = f
OpenerOf(close) == IF close = "]" THEN "[" ELSE IF close = ")" THEN "(" ELSE "{"
\* the last position at or before i that holds c, or 0
RECURSIVE LastIndexOf(_, _, _)
LastIndexOf(s, c, i) ==
  IF i < 1 THEN 0 ELSE IF Ch(s, i) = c THEN i ELSE LastIndexOf(s, c, i - 1)
RECURSIVE SkipIdBack(_, _)
SkipIdBack(s, i) == IF i >= 1 /\ IsId(s, i) THEN SkipIdBack(s, i - 1) ELSE i
\* the node id in front of the arrow at b, a label in brackets between the
\* two skipped ("B[B] --> C" has the source B); "" when there is none
SourceOfArrow(s, b) ==
  LET k == SkipWsBack(s, b - 1)
      o == IF Ch(s, k) \in {"]", ")", "}"}
           THEN LastIndexOf(s, OpenerOf(Ch(s, k)), k - 1) ELSE 0
      idEnd == IF o > 0 THEN SkipWsBack(s, o - 1) ELSE k
  IN SubSeq(s, SkipIdBack(s, idEnd) + 1, idEnd)
\* the node id behind the arrow that ends before e; "" when there is none
TargetOfArrow(s, e) == SubSeq(s, SkipWs(s, e), SkipId(s, SkipWs(s, e)) - 1)
\* the node ids that are the source or the target of an arrow of the line
RECURSIVE LineEndpoints(_, _)
LineEndpoints(line, i) ==
  LET b == NextMatch(ArrowEnd, line, i)
  IN IF b = 0 THEN {}
     ELSE ({SourceOfArrow(line, b), TargetOfArrow(line, ArrowEnd(line, b))} \ {""})
            \cup LineEndpoints(line, ArrowEnd(line, b))
RECURSIVE Endpoints(_)
Endpoints(lines) ==
  IF Len(lines) = 0 THEN {}
  ELSE (IF IsPassThrough(Head(lines)) THEN {} ELSE LineEndpoints(Head(lines), 1))
         \cup Endpoints(Tail(lines))
EdgeEndpoints(text) == Endpoints(split(text))
\* the node ids with a definition (the id and a label in brackets) in the text
DefinedIds(text) == Range(CollectDefs(text, 1, <<>>))

\* C6: in the output of validateAndFixDiagram and of ensurePerfectDiagram,
\* every node id that is the source or the target of an arrow has a node
\* definition in that output.
C6_DefinitionCompleteness ==
  (Called("validateAndFixDiagram") \/ Called("ensurePerfectDiagram")) =>
    EdgeEndpoints(output) \subseteq DefinedIds(output)

\* C7: the output of ensurePerfectDiagram has at least as many `end` tokens
\* as `subgraph` tokens.
C7_SubgraphBalance ==
  Called("ensurePerfectDiagram") => subgraphCount(output) <= endCount(output)

\* C8: ensurePerfectDiagram applied to its own output returns it unchanged.
C8_RepairerIdempotent ==
  (Called("ensurePerfectDiagram") /\ again) => reapplied = output

\* a line that is a diagram type and a direction
IsFullDeclaration(line) ==
  LET t == trim(line)
      a == GraphKeyword(t, 1)
      b == SkipWs(t, a)
  IN a > 0 /\ b > a /\ SubSeq(t, b, Len(t)) \in validDirections
\* C9: the output of validateAndFixDiagram and of ensurePerfectDiagram is
\* not empty, its first line is a diagram type and direction declaration,
\* and no other line of it is a declaration.
C9_SingleHeader ==
  (Called("validateAndFixDiagram") \/ Called("ensurePerfectDiagram")) =>
    /\ output # ""
    /\ IsFullDeclaration(split(output)[1])
    /\ Len(DeclarationLines(split(output))) = 1

\* the direction token of a text: what follows the diagram type on line 1
DirectionToken(text) ==
  LET t == split(text)[1]
      a == GraphKeyword(t, 1)
  IN IF a = 0 THEN "" ELSE trim(From(t, a))
\* C10: the direction token of the output of ensurePerfectDiagram is one of
\* TB, TD, BT, RL, LR.
C10_DirectionRepair ==
  Called("ensurePerfectDiagram") => DirectionToken(output) \in validDirections

(***************************************************************************)
(* The text functions: claims C11 to C14.                                  *)
(***************************************************************************)
\* a text that is absent, empty or white space only
IsBlank(v) == v.undef \/ \A k \in 1..Len(v.str) : Ch(v.str, k) \in WsChars

\* C11: for an absent, empty or white-space-only input each of
\* processDefinition, validateAndFixDiagram, createFallbackDiagram and
\* ensurePerfectDiagram returns exactly the canonical minimal diagram, which
\* contains "A[Empty] --> B[Diagram]".
C11_EmptyInput ==
  (applied # "none" /\ IsBlank(input)) =>
    /\ ~thrown
    /\ output = "graph TD\n    A[Empty] --> B[Diagram]"
    /\ includes(output, "A[Empty] --> B[Diagram]")
\* createFallbackDiagram was called on white space and on the empty text
C11_Witness ==
  /\ applied = "createFallbackDiagram"
  /\ input \in {Str(" \n\t"), Str("")}
  /\ output = EmptyDiagram

\* the line without the white space and the semicolons at its end
RECURSIVE StripEnd(_)
StripEnd(line) ==
  IF line # "" /\ Ch(line, Len(line)) \in WsChars \cup {";"}
  THEN StripEnd(SubSeq(line, 1, Len(line) - 1)) ELSE line
EndsWith(s, lit) == Len(s) >= Len(lit) /\ SubSeq(s, Len(s) - Len(lit) + 1, Len(s)) = lit
DanglingTokens == {"--", "-->", "==", "==>", "-.", "-.->"}
\* the line ends with an arrow token that has no target
EndsDangling(line) == \E tok \in DanglingTokens : EndsWith(StripEnd(line), tok)
\* the complete arrow of the kind of the token that the line ends with
KindOfEnd(line) ==
  IF EndsWith(StripEnd(line), "--") \/ EndsWith(StripEnd(line), "-->") THEN "-->"
  ELSE IF EndsWith(StripEnd(line), "==") \/ EndsWith(StripEnd(line), "==>") THEN "==>"
  ELSE "-.->"
\* the line from its first arrow on, without the semicolon at its end
FromFirstArrow(line) ==
  IF NextMatch(ArrowEnd, line, 1) = 0 THEN ""
  ELSE StripEnd(From(line, NextMatch(ArrowEnd, line, 1)))

\* the lines that are no declaration, in their order
RECURSIVE StatementLines(_)
StatementLines(lines) ==
  IF Len(lines) = 0 THEN <<>>
  ELSE (IF IsDeclarationLine(Head(lines)) THEN <<>> ELSE <<Head(lines)>>)
         \o StatementLines(Tail(lines))

\* C12: in the output of processDefinition no line ends (white space and a
\* semicolon at the end ignored) with a solid, thick or dotted arrow token; a
\* line of the input that ends with one has become a complete arrow of the
\* same kind to Unknown; an arrow with a target is unchanged; the input
\* "graph TD\n    A --> " gives the edge from A to Unknown.
C12_DanglingArrows ==
  (Called("processDefinition") /\ ~IsBlank(input)) =>
    LET inl == StatementLines(split(trim(input.str)))
        outl == StatementLines(split(output))
    IN /\ \A k \in 1..Len(split(output)) : ~EndsDangling(split(output)[k])
       /\ Len(outl) = Len(inl)
       /\ \A k \in 1..Len(inl) :
            IF EndsDangling(inl[k])
            THEN EndsWith(outl[k], KindOfEnd(inl[k]) \o " Unknown")
            ELSE /\ EndsWith(outl[k], FromFirstArrow(inl[k]))
                 /\ ~includes(outl[k], "Unknown")
       /\ input = Str("graph TD\n    A --> ") =>
            /\ LineEndpoints(outl[1], 1) = {"A", "Unknown"}
            /\ includes(outl[1], "--> Unknown")

\* some line of the text has an arrow from the node from to the node to
HasEdge(text, from, to) ==
  \E k \in 1..Len(split(text)) :
    \E b \in 1..Len(split(text)[k]) :
      /\ ArrowEnd(split(text)[k], b) > 0
      /\ SourceOfArrow(split(text)[k], b) = from
      /\ TargetOfArrow(split(text)[k], ArrowEnd(split(text)[k], b)) = to
NodeIds == {"A", "B", "C"}

\* C13: for an input that is one edge "X --> Y" between two nodes without a
\* definition, the output of the repair (ensurePerfectDiagram: the Normalizer,
\* then the validator and the repairs) contains the definitions X[X] and Y[Y]
\* and the edge from X to Y.
C13_UndefinedEndpoints ==
  \A x \in NodeIds : \A y \in NodeIds \ {x} :
    (Called("ensurePerfectDiagram") /\ failure = "none"
       /\ input = Str(x \o " --> " \o y)) =>
      /\ includes(output, x \o "[" \o x \o "]")
      /\ includes(output, y \o "[" \o y \o "]")
      /\ HasEdge(output, x, y)

\* the functions with a try block
Guarded == {"validateAndFixDiagram", "createFallbackDiagram", "ensurePerfectDiagram"}

\* C14 as stated: validateAndFixDiagram, createFallbackDiagram and
\* ensurePerfectDiagram never throw, and after an internal failure the
\* validator and the repairer return the error diagram
\* "Error --> In --> Processing".
C14_ErrorDiagram ==
  applied \in Guarded =>
    /\ ~thrown
    /\ (failure # "none" /\ applied \in {"validateAndFixDiagram", "ensurePerfectDiagram"}) =>
         output = "graph TD\n    A[Error] --> B[In] --> C[Processing]"
\* C14, amended: validateAndFixDiagram, createFallbackDiagram and
\* ensurePerfectDiagram never throw; after a failure in its own try block
\* validateAndFixDiagram returns the diagram Error, Occurred, Fallback,
\* ensurePerfectDiagram the diagram Error, In, Processing and
\* createFallbackDiagram the diagram Repository, Components; after a failure
\* inside the validateAndFixDiagram call they make, createFallbackDiagram and
\* ensurePerfectDiagram return the error diagram of validateAndFixDiagram.
C14_FailuresCaught ==
  applied \in Guarded =>
    /\ ~thrown
    /\ (failure # "none" /\ (failure = "validator" \/ applied = "validateAndFixDiagram")) =>
         output = "graph TD\n    A[Error] --> B[Occurred]\n    B --> C[Fallback]"
    /\ (failure = "body" /\ applied = "ensurePerfectDiagram") =>
         output = "graph TD\n    A[Error] --> B[In] --> C[Processing]"
    /\ (failure = "body" /\ applied = "createFallbackDiagram") =>
         output = "graph TD\n    A[Repository] --> B[Components]"
\* a statement of validateAndFixDiagram threw inside ensurePerfectDiagram
C14_Witness ==
  /\ applied = "ensurePerfectDiagram"
  /\ failure = "validator"
  /\ ~thrown
  /\ output = validateAndFixDiagramCatch

(***************************************************************************)
(* The render pipeline: claims C15 and C16.                                *)
(***************************************************************************)
\* a text without diagram syntax: no arrow, no node definition, no header
IsProse(v) ==
  /\ ~IsBlank(v)
  /\ NextMatch(ArrowEnd, v.str, 1) = 0
  /\ ~HasNodeDef(v.str)
  /\ ~StartsDeclaration(trim(v.str))

\* C15: a pipeline run on prose ends in the tier Minimal or Manual, never in
\* Primary or Sanitized.
C15_ProseTier ==
  \A i \in 1..Len(runs) :
    (Finished(i) /\ IsProse(runs[i].definition)) => runs[i].tier \in {"Minimal", "Manual"}

\* the characters of s that are in the set, in their order
RECURSIVE Keep(_, _)
Keep(s, set) ==
  IF s = "" THEN ""
  ELSE (IF Ch(s, 1) \in set THEN Ch(s, 1) ELSE "") \o Keep(From(s, 2), set)
\* ASCII letters, digits, white space and [ ] - _ >
AllowList ==
  UpperChars \cup LowerChars \cup DigitChars \cup WsChars \cup {"[", "]", "-", "_", ">"}

\* C16: the text of the render call of the second tier is the prop with the
\* characters outside the allow-list removed and the others kept in their
\* order; when that call succeeds the result has the tier Sanitized and is
\* displayed with the notice "simplified due to syntax issues".
C16_SanitizedTier ==
  \A i \in 1..Len(runs) :
    /\ runs[i].pc = "sanitized" => runs[i].text = Keep(runs[i].definition.str, AllowList)
    /\ runs[i].tier = "Sanitized" =>
         /\ runs[i].outcomes = <<"failed", "succeeded">>
         /\ runs[i].markup = RenderedSvg(Keep(runs[i].definition.str, AllowList))
         /\ shownBy = i =>
              /\ diagramSvg = runs[i].markup
              /\ renderMode = "fallback"
              /\ includes(errorMessage, "simplified due to syntax issues")
\* the second tier rendered a prop that lost characters
C16_Witness ==
  \E i \in 1..Len(runs) :
    /\ runs[i].tier = "Sanitized"
    /\ shownBy = i
    /\ runs[i].definition = Str("graph TD\nA[a] --> B{b};")
    /\ diagramSvg = RenderedSvg("graph TD\nA[a] --> Bb")

(***************************************************************************)
(* The text functions: claims C17 to C20.                                  *)
(***************************************************************************)
\* the first token of the text: what stands in front of the first white space
RECURSIVE TokenEnd(_, _)
TokenEnd(t, i) == IF i <= Len(t) /\ ~IsWs(t, i) THEN TokenEnd(t, i + 1) ELSE i
FirstToken(t) == SubSeq(t, 1, TokenEnd(t, 1) - 1)
\* a header line: its first token is the word graph or the word flowchart
IsHeaderLine(line) == FirstToken(trim(line)) \in {"graph", "flowchart"}
\* a comment line: it begins with "%%"
IsCommentLine(line) == startsWith(trim(line), "%%")
\* a line that opens or closes a subgraph: its first token is the word
\* subgraph or the word end
IsBlockLine(line) == FirstToken(trim(line)) \in {"subgraph", "end"}
\* every other line is a content line
IsContentLine(line) == ~IsHeaderLine(line) /\ ~IsCommentLine(line) /\ ~IsBlockLine(line)
\* the first token of the text is the word graph or the word flowchart
StartsWithKeyword(text) ==
  /\ GraphKeyword(trim(text), 1) > 0
  /\ \/ GraphKeyword(trim(text), 1) > Len(trim(text))
     \/ IsWs(trim(text), GraphKeyword(trim(text), 1))

\* C17: the output of processDefinition for an input that is not blank begins
\* with one declaration line: "graph TD" is put in front of an input whose
\* first token is no diagram type, and consecutive declarations with a valid
\* direction (TB included) are collapsed into the first, so that the second
\* line of the output is no such declaration.
C17_HeaderRule ==
  (Called("processDefinition") /\ ~IsBlank(input)) =>
    /\ StartsWithKeyword(split(output)[1])
    /\ ~StartsWithKeyword(input.str) => split(output)[1] = "graph TD"
    /\ Len(split(output)) >= 2 =>
         ~(IsFullDeclaration(split(output)[1]) /\ IsFullDeclaration(split(output)[2]))

\* the lines of the text that are no pass-through lines
RECURSIVE ContentLines(_)
ContentLines(lines) ==
  IF Len(lines) = 0 THEN <<>>
  ELSE (IF IsPassThrough(trim(Head(lines))) THEN <<>> ELSE <<Head(lines)>>)
         \o ContentLines(Tail(lines))
HasArrow(line) == NextMatch(ArrowEnd, line, 1) > 0
\* the number of lines with an arrow
RECURSIVE ArrowLineCount(_)
ArrowLineCount(lines) ==
  IF Len(lines) = 0 THEN 0
  ELSE (IF HasArrow(Head(lines)) THEN 1 ELSE 0) + ArrowLineCount(Tail(lines))
\* the node ids that the content lines of the text define, in their order
NodesInOrder(text) == CollectPass(split(text), <<>>)
\* validateAndFixDiagram ran to its end on a text that is not blank
Validates == Called("validateAndFixDiagram") /\ failure = "none" /\ ~IsBlank(input)
\* a text without an arrow that defines a node
EdgeLess(text) ==
  /\ \A k \in 1..Len(ContentLines(split(text))) : ~HasArrow(ContentLines(split(text))[k])
  /\ Len(NodesInOrder(text)) >= 1

\* C18: when the input of validateAndFixDiagram has no edge and defines at
\* least one node, the output ends with one edge that the validator made,
\* and has no other edge: the edge from the first to the second defined node
\* when two or more are defined, the edge from the only node to Unknown (and
\* the definition of Unknown behind it) when one is defined.
C18_EdgeSynthesis ==
  (Validates /\ EdgeLess(input.str)) =>
    LET nodes == NodesInOrder(input.str)
        out == split(output)
    IN /\ ArrowLineCount(out) = 1
       /\ Len(nodes) >= 2 => out[Len(out)] = "    " \o nodes[1] \o " --> " \o nodes[2]
       /\ Len(nodes) = 1 =>
            /\ Len(out) >= 2
            /\ out[Len(out) - 1] = "    " \o nodes[1] \o " --> Unknown"
            /\ out[Len(out)] = "    Unknown[Unknown]"
\* two nodes without an edge were connected
C18_Witness ==
  /\ Validates
  /\ input = Str("A[a]\nB(b)")
  /\ output = "graph TD\nA[a]\nB(b)\n    A --> B"

\* no content line of the text has a node definition or an edge that
\* connRegex finds
NothingFound(text) ==
  \A k \in 1..Len(ContentLines(split(text))) :
    /\ ~HasNodeDef(trim(ContentLines(split(text))[k]))
    /\ NextMatch(Conn, trim(ContentLines(split(text))[k]), 1) = 0

\* C19: for an input that is not blank and in which no node definition and
\* no edge is found, validateAndFixDiagram returns "graph TD" with the one
\* edge A[Repository] --> B[Components], and nothing of the input: no header,
\* comment or subgraph line.
C19_ZeroNodes ==
  (Validates /\ NothingFound(input.str)) =>
    output = "graph TD\n    A[Repository] --> B[Components]"
\* a header and a line of prose were replaced by the Repository diagram
C19_Witness ==
  /\ Validates
  /\ input = Str("graph TD\nhello world")
  /\ output = "graph TD\n    A[Repository] --> B[Components]"

\* the elements of a are in b, in their order
RECURSIVE IsSubsequence(_, _)
IsSubsequence(a, b) ==
  IF Len(a) = 0 THEN TRUE
  ELSE IF Len(b) = 0 THEN FALSE
  ELSE IF Head(a) = Head(b) THEN IsSubsequence(Tail(a), Tail(b))
  ELSE IsSubsequence(a, Tail(b))
\* a header, comment, subgraph or end line, a content line with an edge, or
\* a content line with a node definition
IsKeptLine(line) ==
  \/ ~IsContentLine(line)
  \/ NextMatch(Conn, trim(line), 1) > 0
  \/ HasNodeDef(trim(line))
\* some content line of the text defines a node
DefinesNode(text) ==
  \E k \in 1..Len(split(text)) :
    IsContentLine(split(text)[k]) /\ HasNodeDef(trim(split(text)[k]))
RECURSIVE KeptLines(_)
KeptLines(lines) ==
  IF Len(lines) = 0 THEN <<>>
  ELSE (IF IsKeptLine(Head(lines)) THEN <<Head(lines)>> ELSE <<>>) \o KeptLines(Tail(lines))

\* C20: for an input of validateAndFixDiagram with at least one defined node,
\* the header, comment, subgraph and end lines, the content lines with an
\* edge and the content lines with a node definition are in the output,
\* unchanged and in the order of the input; every other content line that is
\* not empty is absent from the output.
C20_FixPassLines ==
  (Validates /\ DefinesNode(input.str)) =>
    /\ IsSubsequence(KeptLines(split(input.str)), split(output))
    /\ \A k \in 1..Len(split(input.str)) :
         (~IsKeptLine(split(input.str)[k]) /\ trim(split(input.str)[k]) # "") =>
           split(input.str)[k] \notin Range(split(output))

(***************************************************************************)
(* The text functions: claims C21 to C26.                                  *)
(***************************************************************************)
\* the positions of the lines of the sequence that are the given line
PositionsOf(lines, line) == {k \in 1..Len(lines) : lines[k] = line}
\* the positions of the content lines with an arrow from or to the node
EdgeLinesOf(lines, id) ==
  {k \in 1..Len(lines) : ~IsPassThrough(lines[k]) /\ id \in LineEndpoints(lines[k], 1)}

\* C21: in the output of validateAndFixDiagram, every node id that is the
\* source or the target of an arrow of the input that is kept in the output,
\* and has no definition in the input, has the definition line "    Id[Id]" exactly once, in front of the
\* first edge line that uses the id.
C21_SynthesisOrder ==
  Validates =>
    \A id \in (EdgeEndpoints(input.str) \cap EdgeEndpoints(output))
                 \ Range(CollectPass(split(input.str), <<>>)) :
      /\ Cardinality(PositionsOf(split(output), "    " \o id \o "[" \o id \o "]")) = 1
      /\ \A k \in PositionsOf(split(output), "    " \o id \o "[" \o id \o "]") :
           \A j \in EdgeLinesOf(split(output), id) : k < j

\* the text that step 5 of ensurePerfectDiagram is given: the normalised and
\* validated input after the steps 1 to 4
BeforeStep5(v) ==
  CloseSubgraphs(FixClassDefs(FixDirection(EnsureType(
    validateAndFixDiagram(Str(processDefinition(v))))), 1))
\* the number of leading lines that are a header line or a comment line
RECURSIVE LeadingHeaders(_)
LeadingHeaders(lines) ==
  IF Len(lines) = 0 \/ ~(IsHeaderLine(Head(lines)) \/ IsCommentLine(Head(lines))) THEN 0
  ELSE 1 + LeadingHeaders(Tail(lines))
\* the node ids that an edge of the text refers to and that the text does not
\* define, Unknown left out
Undefined5(text) ==
  (Range(CollectReferences(text, 1, <<>>)) \ DefinedIds(text)) \ {"Unknown"}
Repairs == Called("ensurePerfectDiagram") /\ failure = "none" /\ ~IsBlank(input)

\* C22: step 5 of ensurePerfectDiagram inserts one line "    Id[Id]" for
\* every node id that an edge refers to and that is not defined, Unknown left
\* out, and no other line; the inserted lines stand behind the leading
\* header and comment lines and in front of the first line that is neither;
\* the lines of the text are all kept, unchanged and in their order.
C22_DefinitionInsertion ==
  Repairs =>
    LET before == split(BeforeStep5(input))
        h == LeadingHeaders(before)
        n == Cardinality(Undefined5(BeforeStep5(input)))
        out == split(output)
    IN /\ Len(out) = Len(before) + n
       /\ SubSeq(out, 1, h) = SubSeq(before, 1, h)
       /\ SubSeq(out, h + n + 1, Len(out)) = SubSeq(before, h + 1, Len(before))
       /\ {out[k] : k \in (h + 1)..(h + n)}
            = {"    " \o id \o "[" \o id \o "]" : id \in Undefined5(BeforeStep5(input))}

\* a line "classDef <name> <style>"
IsClassDefLine(line) == ClassDef(trim(line), 1) > 0
\* the line with the style that the repair is to leave: its own style when
\* that has a ":", the default style otherwise
RepairedClassDef(t) ==
  IF includes(SubSeq(t, StyleStart(t, 1), ClassDef(t, 1) - 1), ":") THEN t
  ELSE SubSeq(t, 1, ClassNameEnd(t, 1) - 1) \o " fill:#f9f9f9,stroke:#666,stroke-width:1px"

\* C23: for every line "classDef <name> <style>" of the input, the output of
\* ensurePerfectDiagram has a classDef line of that name, with the style of
\* the input when that has a ":" and with the default style otherwise.
C23_ClassDefRepair ==
  Repairs =>
    \A k \in 1..Len(split(input.str)) :
      IsClassDefLine(split(input.str)[k]) =>
        \E j \in 1..Len(split(output)) :
          trim(split(output)[j]) = RepairedClassDef(trim(split(input.str)[k]))

\* the number of places of the line that hold the character
Count(line, c) == Cardinality({i \in 1..Len(line) : Ch(line, i) = c})
\* max(0, opens - closes) copies of the closer
Missing(line, open, close) == repeat(close, Count(line, open) - Count(line, close))
\* a line that the balancer is to leave alone: a header line or a comment
\* line
IsHeaderOrComment(line) == IsHeaderLine(line) \/ IsCommentLine(line)

\* C24: fixMismatchedBrackets returns as many lines as it is given; a header
\* or comment line unchanged; every other line followed by the missing
\* closers of the families ( ) then [ ] then { } then < >, after which no
\* family of the line has more openers than closers; a line in which no
\* family has more openers than closers is unchanged.
C24_BracketBalancer ==
  Called("fixMismatchedBrackets") =>
    /\ Len(split(output)) = Len(split(input.str))
    /\ \A k \in 1..Len(split(input.str)) :
         LET line == split(input.str)[k]
             fixed == split(output)[k]
         IN IF IsHeaderOrComment(line) THEN fixed = line
            ELSE /\ fixed = line \o Missing(line, "(", ")") \o Missing(line, "[", "]")
                                 \o Missing(line, "{", "}") \o Missing(line, "<", ">")
                 /\ Count(fixed, "(") <= Count(fixed, ")")
                 /\ Count(fixed, "[") <= Count(fixed, "]")
                 /\ Count(fixed, "{") <= Count(fixed, "}")
                 /\ Count(fixed, "<") <= Count(fixed, ">")
                 /\ (/\ Count(line, "(") <= Count(line, ")")
                     /\ Count(line, "[") <= Count(line, "]")
                     /\ Count(line, "{") <= Count(line, "}")
                     /\ Count(line, "<") <= Count(line, ">")) => fixed = line

\* what createFallbackDiagram extracts from a text: the node ids in the order
\* of their first appearance, their labels, the edges
Extracted(v) ==
  ExtractLines(split(cleanedDiagram(v.str)),
               [nodes |-> <<>>, nodeLabels |-> <<>>, connections |-> <<>>])
Synthesizes == Called("createFallbackDiagram") /\ failure = "none" /\ ~IsBlank(input)

\* C25: when at least one node is extracted from the input, the output of
\* createFallbackDiagram is the line "graph TD", then one line "    id[label]"
\* for every extracted node, then one line "    from --> to" for every
\* extracted edge in the order of extraction, and no other line.
C25_FallbackShape ==
  (Synthesizes /\ Len(Extracted(input).nodes) >= 1) =>
    output \o "\n" = "graph TD\n" \o NodeLines(Extracted(input).nodes, Extracted(input).nodeLabels)
                                   \o ConnectionLines(Extracted(input).connections)

\* C26 as stated: for an input that is not blank and from which no node and
\* no edge is extracted, and after an internal failure, the content of the
\* output of createFallbackDiagram is the one edge
\* A[Repository] --> B[Components].
C26_RepositoryDiagram ==
  (/\ Called("createFallbackDiagram")
   /\ ~IsBlank(input)
   /\ (failure # "none" \/ Len(Extracted(input).nodes) = 0)) =>
    /\ ~thrown
    /\ ContentLines(split(output)) = <<"    A[Repository] --> B[Components]">>
\* C26, amended: for an input that is not blank and from which no node and no
\* edge is extracted, the content of the output of createFallbackDiagram is
\* the two edges A[Repository] --> B[Components] and B --> C[Features]; after
\* a failure in its own try block the output is "graph TD" with the one edge
\* A[Repository] --> B[Components]; after a failure inside the
\* validateAndFixDiagram call it makes, the output is the error diagram of
\* validateAndFixDiagram.
C26_DefaultDiagrams ==
  (Called("createFallbackDiagram") /\ ~IsBlank(input)) =>
    /\ ~thrown
    /\ (failure = "none" /\ Len(Extracted(input).nodes) = 0) =>
         ContentLines(split(output))
           = <<"    A[Repository] --> B[Components]", "    B --> C[Features]">>
    /\ failure = "body" => output = "graph TD\n    A[Repository] --> B[Components]"
    /\ failure = "validator" =>
         output = "graph TD\n    A[Error] --> B[Occurred]\n    B --> C[Fallback]"
\* a line of prose gave the diagram with the node Features
C26_Witness ==
  /\ Synthesizes
  /\ input = Str("hello world")
  /\ Len(Extracted(input).nodes) = 0
  /\ output = "graph TD\ngraph TD\n    A[Repository] --> B[Components]\n    B --> C[Features]"

(***************************************************************************)
(* The render pipeline: claim C27.                                         *)
(***************************************************************************)
\* the markup, the mode and the message that a finished run leaves on
\* display when no run came before it: a function of the prop of the run and
\* of the outcomes of its render calls
DisplayOf(definition, outcomes) ==
  IF Falsy(definition) THEN <<"", "mermaid", "">>
  ELSE IF outcomes = <<"succeeded">>
  THEN <<RenderedSvg(processDefinition(definition)), "mermaid", "">>
  ELSE IF outcomes = <<"failed", "succeeded">>
  THEN <<RenderedSvg(Keep(definition.str, AllowList)), "fallback",
         "Diagram was simplified due to syntax issues">>
  ELSE IF outcomes = <<"failed", "failed", "succeeded">>
  THEN <<RenderedSvg("graph TD\n    A[Error] --> B[Rendering Failed]"), "fallback",
         "Failed to render diagram due to syntax errors">>
  ELSE <<manualSvg, "fallback", "Failed to render diagram">>

\* C27: what is displayed after a run has finished (the markup, the mode and
\* the message) is a function of the prop of that run and of the outcomes of
\* its render calls: it is what the same run displays in a component that
\* had no earlier run, for the empty and the absent prop too.
C27_NoSharedState ==
  \A i \in 1..Len(runs) :
    (Finished(i) /\ shownBy = i) =>
      <<diagramSvg, renderMode, errorMessage>> = DisplayOf(runs[i].definition, runs[i].outcomes)

(***************************************************************************)
(* The text functions: claims C28 to C30.                                  *)
(***************************************************************************)
\* the line has an arrow, at or behind i, with a node id in front of it (a
\* label in brackets between the two skipped) and a node id behind it
RECURSIVE HasEdgeFrom(_, _)
HasEdgeFrom(line, i) ==
  LET b == NextMatch(ArrowEnd, line, i)
  IN IF b = 0 THEN FALSE
     ELSE \/ SourceOfArrow(line, b) # "" /\ TargetOfArrow(line, ArrowEnd(line, b)) # ""
          \/ HasEdgeFrom(line, ArrowEnd(line, b))
\* the content lines with an edge, in their order
RECURSIVE EdgeLines(_)
EdgeLines(lines) ==
  IF Len(lines) = 0 THEN <<>>
  ELSE (IF ~IsPassThrough(Head(lines)) /\ HasEdgeFrom(Head(lines), 1)
        THEN <<Head(lines)>> ELSE <<>>) \o EdgeLines(Tail(lines))

\* C28: when the input of validateAndFixDiagram has a line with an arrow
\* between two node references, with or without inline labels, the edge
\* lines of the output are the edge lines of the input: no edge is added.
C28_NoExtraEdge ==
  (Validates /\ Len(EdgeLines(split(input.str))) > 0) =>
    EdgeLines(split(output)) = EdgeLines(split(input.str))

\* a content line whose first token begins with a keyword and is none
BeginsLikeKeyword(line) ==
  /\ \/ startsWith(trim(line), "graph")
     \/ startsWith(trim(line), "flowchart")
     \/ startsWith(trim(line), "subgraph")
     \/ startsWith(trim(line), "end")
  /\ FirstToken(trim(line)) \notin {"graph", "flowchart", "subgraph", "end"}
\* the node id at the start of the line when an arrow follows it
EdgeSource(line) ==
  IF Conn(trim(line), 1) > 0 THEN ConnFrom(trim(line), 1) ELSE ""

\* C29: a line whose first token begins with graph, flowchart, subgraph or
\* end without being that keyword is a content line.  processDefinition
\* defines the source of its edge when the input has no definition of it;
\* validateAndFixDiagram collects its node definitions, so that the line is
\* kept when it has one, and does not copy it into the header part: the line
\* is in the output as often as in the input.
C29_KeywordLines ==
  \A k \in 1..Len(split(input.str)) :
    LET line == split(input.str)[k]
    IN (applied \in {"processDefinition", "validateAndFixDiagram"}
          /\ failure = "none" /\ ~IsBlank(input) /\ BeginsLikeKeyword(line)) =>
         /\ (/\ applied = "processDefinition"
             /\ EdgeSource(line) # ""
             /\ EdgeSource(line) \notin DefinedIds(input.str)) =>
              includes(output, EdgeSource(line) \o "[" \o EdgeSource(line) \o "]")
         /\ (applied = "validateAndFixDiagram" /\ HasNodeDef(trim(line))) =>
              Cardinality(PositionsOf(split(output), line))
                = Cardinality(PositionsOf(split(input.str), line))

\* C30: processDefinition applied to its own output returns it unchanged.
C30_NormalizerIdempotent ==
  (Called("processDefinition") /\ again) => reapplied = output

=============================================================================
